---- MODULE Spec2Model ----
(***************************************************************************)
(* Model of the react-native module resolver of                            *)
(* packages/typescript-react-native-resolver (ReactNativeResolverHost,     *)
(* ResolverLog) as a state machine.                                        *)
(*                                                                         *)
(* Strings.  A string is a sequence of lexical tokens: the punctuation     *)
(* "." and "/" are tokens of their own and every maximal run of other      *)
(* characters that the model never needs to look into is one token         *)
(* ("repo", "sub", "ts", "react-native", "-windows").  So                  *)
(*   "./sub.d.ts"        is  << ".", "/", "sub", ".", "d", ".", "ts" >>    *)
(*   "react-native-svg"  is  << "react-native", "-svg" >>                  *)
(* and startsWith, endsWith, substring, length and concatenation are the   *)
(* sequence operations.  undefined (and the empty string, which the code   *)
(* treats alike wherever it tests truthiness) is the empty sequence.       *)
(***************************************************************************)
EXTENDS Naturals, Sequences, FiniteSets, TLC

VARIABLES
  host,         \* fields of the ReactNativeResolverHost object
  resolverLog,  \* fields of its ResolverLog: mode, buffering, messages
  sink,         \* what flush() has written so far, one entry per write
  files,        \* the file system: paths that are files
  dirs,         \* the file system: paths that are directories
  manifests,    \* the file system: package.json of each package directory
  req,          \* the call the compiler is about to make
  res           \* what that call returned

vars == << host, resolverLog, sink, files, dirs, manifests, req, res >>

-----------------------------------------------------------------------------
(* Strings and paths *)

Undefined == << >>

StartsWith(s, p) == Len(s) >= Len(p) /\ SubSeq(s, 1, Len(p)) = p

EndsWith(s, e) == Len(s) >= Len(e) /\ SubSeq(s, Len(s) - Len(e) + 1, Len(s)) = e

Substring(s, n) == SubSeq(s, n + 1, Len(s))

InSeq(x, s) == \E i \in 1..Len(s) : s[i] = x

sep == "/"

FirstSep(s) == IF InSeq(sep, s) THEN CHOOSE i \in 1..Len(s) : s[i] = sep /\ \A j \in 1..(i - 1) : s[j] # sep ELSE 0

LastSep(s) == IF InSeq(sep, s) THEN CHOOSE i \in 1..Len(s) : s[i] = sep /\ \A j \in (i + 1)..Len(s) : s[j] # sep ELSE 0

RECURSIVE Segments(_)
Segments(s) ==
  IF ~InSeq(sep, s) THEN << s >>
  ELSE << SubSeq(s, 1, FirstSep(s) - 1) >> \o Segments(Substring(s, FirstSep(s)))

RECURSIVE NormalizeSegments(_, _, _)
NormalizeSegments(segs, out, abs) ==
  IF segs = << >> THEN out
  ELSE IF Head(segs) = << >> \/ Head(segs) = << "." >> THEN NormalizeSegments(Tail(segs), out, abs)
       ELSE IF Head(segs) # << ".", "." >> THEN NormalizeSegments(Tail(segs), Append(out, Head(segs)), abs)
            ELSE NormalizeSegments(Tail(segs),
                                   IF out # << >> /\ out[Len(out)] # << ".", "." >>
                                   THEN SubSeq(out, 1, Len(out) - 1)
                                   ELSE IF abs THEN out ELSE Append(out, Head(segs)),
                                   abs)

RECURSIVE Unsplit(_)
Unsplit(segs) ==
  IF segs = << >> THEN << >>
  ELSE IF Len(segs) = 1 THEN segs[1]
       ELSE segs[1] \o << sep >> \o Unsplit(Tail(segs))

IsAbsolute(p) == p # << >> /\ p[1] = sep

Rooted(abs, body) ==
  IF abs THEN << sep >> \o body
  ELSE IF body = << >> THEN << "." >> ELSE body

\* the path without "." and ".." segments, doubled or trailing separators
Collapsed(p) == Rooted(IsAbsolute(p), Unsplit(NormalizeSegments(Segments(p), << >>, IsAbsolute(p))))

\* path.normalize keeps one trailing separator
KeepTrailing(p, collapsed) ==
  IF EndsWith(p, << sep >>) /\ ~EndsWith(collapsed, << sep >>) THEN collapsed \o << sep >> ELSE collapsed

normalize(p) == KeepTrailing(p, Collapsed(p))

join(a, b) ==
  normalize(IF b = << >> THEN a ELSE IF a = << >> THEN b ELSE a \o << sep >> \o b)

dirname(p) ==
  IF ~InSeq(sep, p) THEN << "." >>
  ELSE IF LastSep(p) = 1 THEN << sep >>
       ELSE SubSeq(p, 1, LastSep(p) - 1)

resolve(dir, p) == Collapsed(IF IsAbsolute(p) THEN p ELSE dir \o << sep >> \o p)

-----------------------------------------------------------------------------
(* The file system, as @rnx-kit/tools-node sees it *)

isFile(p) == p \in files

isDirectory(p) == p \in dirs

-----------------------------------------------------------------------------
(* Extensions *)

Ts == << ".", "ts" >>
Tsx == << ".", "tsx" >>
Dts == << ".", "d", ".", "ts" >>
Js == << ".", "js" >>
Jsx == << ".", "jsx" >>
Json == << ".", "json" >>

Extensions == << Dts, Tsx, Ts, Json, Jsx, Js >>

hasExtension(p, ext) == Len(p) > Len(ext) /\ EndsWith(p, ext)

getExtensionFromPath(p) ==
  IF \E i \in 1..Len(Extensions) : hasExtension(p, Extensions[i])
  THEN Extensions[CHOOSE i \in 1..Len(Extensions) :
                    /\ hasExtension(p, Extensions[i])
                    /\ \A j \in 1..(i - 1) : ~hasExtension(p, Extensions[j])]
  ELSE Undefined

-----------------------------------------------------------------------------
(* ResolverLog.  T is the pair of the log object and the sink it writes to. *)

Never == "Never"
Always == "Always"
OnFailure == "OnFailure"

ResolverLog(mode, logFile) ==
  [mode |-> mode, buffering |-> FALSE, messages |-> << >>, logFile |-> logFile]

flush(T) ==
  [T EXCEPT !.sink = Append(@, [to |-> T.log.logFile, lines |-> T.log.messages])]

\* a reset that keeps the buffered messages
resetKeepingMessages(T) == [T EXCEPT !.log.buffering = FALSE]

reset(T) ==
  [T EXCEPT !.log.messages = IF T.log.mode # Never THEN << >> ELSE @,
            !.log.buffering = FALSE]

endSuccess(T) == reset(IF T.log.mode = Always THEN flush(T) ELSE T)

endFailure(T) == reset(IF T.log.mode = OnFailure \/ T.log.mode = Always THEN flush(T) ELSE T)

begin(T) == [T EXCEPT !.log.buffering = TRUE]

\* the rest of log() after the push
afterPush(T) == IF ~T.log.buffering THEN endSuccess(T) ELSE T

\* a log that buffers in every mode
logAnyMode(T, message) == afterPush([T EXCEPT !.log.messages = Append(@, message)])

log(T, message) ==
  IF T.log.mode # Never THEN afterPush([T EXCEPT !.log.messages = Append(@, message)]) ELSE T

RECURSIVE logAll(_, _)
logAll(T, messages) ==
  IF messages = << >> THEN T ELSE logAll(log(T, Head(messages)), Tail(messages))

-----------------------------------------------------------------------------
(* ReactNativeResolverHost: construction *)

getReactNativePackageName(platform) ==
  CASE platform = "windows" -> << "react-native", "-windows" >>
    [] platform = "macos" -> << "react-native", "-macos" >>
    [] platform = "win32" -> << "@office-iss", sep, "react-native", "-win32" >>
    [] OTHER -> Undefined

ResolverLogModeOf(options, traceReactNativeModuleResolutionErrors) ==
  IF options.traceResolution THEN Always
  ELSE IF traceReactNativeModuleResolutionErrors THEN OnFailure
       ELSE Never

\* a constructor that lists declaration files ahead of source files
ExtensionsAllOfDeclarationsFirst(options) ==
  << Dts, Ts, Tsx >>
    \o (IF options.checkJs THEN << Js, Jsx >> ELSE << >>)
    \o (IF options.resolveJsonModule THEN << Json >> ELSE << >>)

ExtensionsAllOf(options) ==
  << Ts, Tsx, Dts >>
    \o (IF options.checkJs THEN << Js, Jsx >> ELSE << >>)
    \o (IF options.resolveJsonModule THEN << Json >> ELSE << >>)

ReactNativeResolverHost(options, platform, platformExtensions, disableReactNativePackageSubstitution, workspaces) ==
  [ platform |-> platform,
    platformExtensions |->
      [i \in 1..(1 + Len(platformExtensions)) |->
         << ".", (<< platform >> \o platformExtensions)[i] >>],
    disableReactNativePackageSubstitution |-> disableReactNativePackageSubstitution,
    options |-> options,
    reactNativePackageName |-> getReactNativePackageName(platform),
    workspaces |-> workspaces,
    extensionsTypeScript |-> << Ts, Tsx, Dts >>,
    extensionsAll |-> ExtensionsAllOf(options) ]

-----------------------------------------------------------------------------
(* Messages: util.format(format, ...args) kept as the format and its args *)

FileMiss(p) == << "File %s does not exist.", p >>

DirectoryMiss(p) == << "Directory %s does not exist.", p >>

-----------------------------------------------------------------------------
(* react-native package substitution.  Returns the module name and the     *)
(* messages logged on the way.                                             *)

rn == << "react-native" >>

\* lines 1032-1034
substituted(m, replaced) ==
  [m |-> replaced, trace |-> << << "Substituting module '%s' with '%s'.", m, replaced >> >>]

\* a substitution that does not look at disableReactNativePackageSubstitution
replaceReactNativePackageNameAlways(m) ==
  IF host.reactNativePackageName = Undefined THEN [m |-> m, trace |-> << >>]
  ELSE IF ~StartsWith(m, rn) THEN [m |-> m, trace |-> << >>]
  ELSE substituted(m, host.reactNativePackageName \o Substring(m, Len(rn)))

replaceReactNativePackageName(m) ==
  IF host.disableReactNativePackageSubstitution THEN [m |-> m, trace |-> << >>]
  ELSE IF host.reactNativePackageName = Undefined THEN [m |-> m, trace |-> << >>]
  ELSE IF ~StartsWith(m, rn) THEN [m |-> m, trace |-> << >>]
  ELSE substituted(m, host.reactNativePackageName \o Substring(m, Len(rn)))

-----------------------------------------------------------------------------
(* @rnx-kit/tools-node: module references and the node_modules walk *)

ScopeTokens == { "@acme", "@office-iss", "@types" }

isFileSpecifier(m) == m = << >> \/ m[1] = sep \/ m[1] = "."

FileModuleRef(path) == [isPackage |-> FALSE, scope |-> Undefined, name |-> Undefined, path |-> path]

\* a package reference from its scope and the rest of the specifier, name(/path)?
PackageModuleRef(scope, body) ==
  [isPackage |-> TRUE, scope |-> scope,
   name |-> IF InSeq(sep, body) THEN SubSeq(body, 1, FirstSep(body) - 1) ELSE body,
   path |-> IF InSeq(sep, body) THEN Substring(body, FirstSep(body)) ELSE Undefined]

parseModuleRef(m) ==
  IF isFileSpecifier(m) THEN FileModuleRef(m)
  ELSE IF m[1] \notin ScopeTokens THEN PackageModuleRef(Undefined, m)
       ELSE IF Len(m) >= 3 /\ m[2] = sep /\ m[3] # sep THEN PackageModuleRef(<< m[1] >>, Substring(m, 2))
            ELSE FileModuleRef(m)

isPackageModuleRef(ref) == ref.isPackage

isFileModuleRef(ref) == ~ref.isPackage

QualifiedName(ref) == IF ref.scope # Undefined THEN ref.scope \o << sep >> \o ref.name ELSE ref.name

getMangledPackageName(ref) ==
  IF ref.scope # Undefined
  THEN << CASE ref.scope = << "@acme" >> -> "acme"
            [] ref.scope = << "@office-iss" >> -> "office-iss"
            [] OTHER -> "types", "__" >> \o ref.name
  ELSE ref.name

RECURSIVE findPackageDependencyDirFrom(_, _)
findPackageDependencyDirFrom(name, startDir) ==
  IF (startDir \o << sep, "node_modules", sep >> \o name) \in dirs
  THEN startDir \o << sep, "node_modules", sep >> \o name
  ELSE IF ~InSeq(sep, Tail(startDir)) THEN Undefined
       ELSE findPackageDependencyDirFrom(name, dirname(startDir))

findPackageDependencyDir(ref, startDir) == findPackageDependencyDirFrom(QualifiedName(ref), startDir)

malformed == [types |-> Undefined, typings |-> Undefined, main |-> Undefined, throws |-> TRUE]

readPackage(packageDir) == IF packageDir \in DOMAIN manifests THEN manifests[packageDir] ELSE malformed

-----------------------------------------------------------------------------
(* Workspaces *)

NoWorkspaceRef == [found |-> FALSE, workspace |-> [name |-> Undefined, path |-> Undefined], path |-> Undefined]

FirstTrue(flags) ==
  IF \E i \in 1..Len(flags) : flags[i]
  THEN CHOOSE i \in 1..Len(flags) : flags[i] /\ \A j \in 1..(i - 1) : ~flags[j]
  ELSE 0

\* a membership test on the bare root path
WithoutTrailingSeparator(normalized) == normalized

WithTrailingSeparator(normalized) ==
  IF EndsWith(normalized, << sep >>) THEN normalized ELSE normalized \o << sep >>

\* workspaces.find by name, for a package reference
workspaceByName(ref, i) ==
  IF i = 0 THEN NoWorkspaceRef
  ELSE [found |-> TRUE, workspace |-> host.workspaces[i], path |-> ref.path]

\* the path below the workspace root wp
workspaceModulePath(p, wp) ==
  Substring(p, IF EndsWith(wp, << sep >>) THEN Len(wp) ELSE Len(wp) + 1)

\* workspaces.find by path, for a file reference resolved to p
workspaceByPath(p, i) ==
  IF i = 0 THEN NoWorkspaceRef
  ELSE [found |-> TRUE, workspace |-> host.workspaces[i],
        path |-> workspaceModulePath(p, normalize(host.workspaces[IF i = 0 THEN 1 ELSE i].path))]

workspaceOfPath(p) ==
  workspaceByPath(p, FirstTrue([k \in 1..Len(host.workspaces) |->
                      StartsWith(p, WithTrailingSeparator(normalize(host.workspaces[k].path)))]))

workspaceOfRef(ref, containingFile) ==
  IF isPackageModuleRef(ref)
  THEN workspaceByName(ref, FirstTrue([k \in 1..Len(host.workspaces) |->
                                         host.workspaces[k].name = QualifiedName(ref)]))
  ELSE workspaceOfPath(resolve(dirname(containingFile), ref.path))

queryWorkspaceModuleRef(moduleName, containingFile) ==
  workspaceOfRef(parseModuleRef(moduleName), containingFile)

-----------------------------------------------------------------------------
(* Finding a module file.  Every result is the module (NoModule for        *)
(* undefined) and the messages logged on the way.                          *)

NoModule == [resolvedFileName |-> Undefined, extension |-> Undefined]

IsModule(m) == m.resolvedFileName # Undefined

Module(p, extension) == [resolvedFileName |-> p, extension |-> extension]

\* a list that tries the plain name ahead of the platform extensions
PlatformExtensionsPlainFirst == << << >> >> \o host.platformExtensions

PlatformExtensions == host.platformExtensions \o << << >> >>

\* the loops nested the other way round: every platform extension is tried
\* for one extension before the next extension
ProbesExtensionFirst(searchDir, modulePath, extensions) ==
  [k \in 1..(Len(PlatformExtensions) * Len(extensions)) |->
     Module(join(searchDir, modulePath
                              \o PlatformExtensions[((k - 1) % Len(PlatformExtensions)) + 1]
                              \o extensions[((k - 1) \div Len(PlatformExtensions)) + 1]),
            extensions[((k - 1) \div Len(PlatformExtensions)) + 1])]

\* The probes of one pass of the platform-extension x extension loops, in order.
Probes(searchDir, modulePath, extensions) ==
  [k \in 1..(Len(PlatformExtensions) * Len(extensions)) |->
     Module(join(searchDir, modulePath
                              \o PlatformExtensions[((k - 1) \div Len(extensions)) + 1]
                              \o extensions[((k - 1) % Len(extensions)) + 1]),
            extensions[((k - 1) % Len(extensions)) + 1])]

Misses(probes, n) == [k \in 1..n |-> FileMiss(probes[k].resolvedFileName)]

\* return at probe number hit (0: none is a file); every earlier probe logged a miss
ProbeResult(probes, hit) ==
  IF hit = 0 THEN [module |-> NoModule, trace |-> Misses(probes, Len(probes))]
  ELSE [module |-> probes[hit], trace |-> Misses(probes, hit - 1)]

FirstFile(probes) ==
  ProbeResult(probes, FirstTrue([k \in 1..Len(probes) |-> isFile(probes[k].resolvedFileName)]))

\* lines 1151-1161 and 1172-1182
BroadSearch(searchDir, modulePath, extensions) == FirstFile(Probes(searchDir, modulePath, extensions))

RECURSIVE findModuleFile(_, _, _)

\* a fallback that descends into a path once without testing that it is a directory
directoryFallbackUntested(p, extensions, trace) ==
  IF isDirectory(p) \/ ~EndsWith(p, << "index" >>)
  THEN [findModuleFile(p, << "index" >>, extensions) EXCEPT !.trace = trace \o @]
  ELSE [module |-> NoModule, trace |-> Append(trace, DirectoryMiss(p))]

\* lines 1185-1197, after the passes logged trace
directoryFallback(p, extensions, trace) ==
  IF isDirectory(p)
  THEN [findModuleFile(p, << "index" >>, extensions) EXCEPT !.trace = trace \o @]
  ELSE [module |-> NoModule, trace |-> Append(trace, DirectoryMiss(p))]

\* lines 1163-1183, after the first pass logged trace
javaScriptRetry(second, p, extensions, trace) ==
  IF IsModule(second.module) THEN [module |-> second.module, trace |-> trace \o second.trace]
  ELSE directoryFallback(p, extensions, trace \o second.trace)

afterBroadSearch(first, searchDir, modulePath, extensions, extension) ==
  IF IsModule(first.module) THEN first
  ELSE javaScriptRetry(
         IF extension = Js \/ extension = Jsx
         THEN BroadSearch(searchDir, SubSeq(modulePath, 1, Len(modulePath) - Len(extension)), extensions)
         ELSE [module |-> NoModule, trace |-> << >>],
         join(searchDir, modulePath), extensions, first.trace)

\* lines 1137-1141
explicitExtension(p, extension) ==
  IF isFile(p) THEN [module |-> Module(p, extension), trace |-> << >>]
  ELSE [module |-> NoModule, trace |-> << FileMiss(p) >>]

\* a finder that takes any known extension of the module path as explicit,
\* allowed or not
findModuleFileWithAnyExtension(searchDir, modulePath, extensions, extension) ==
  IF extension # Undefined
  THEN explicitExtension(join(searchDir, modulePath), extension)
  ELSE afterBroadSearch(BroadSearch(searchDir, modulePath, extensions),
                        searchDir, modulePath, extensions, extension)

\* a finder that goes on to the broad search when the named file is missing
findModuleFileFallingThrough(searchDir, modulePath, extensions, extension) ==
  IF extension # Undefined /\ InSeq(extension, extensions) /\ isFile(join(searchDir, modulePath))
  THEN explicitExtension(join(searchDir, modulePath), extension)
  ELSE afterBroadSearch(BroadSearch(searchDir, modulePath, extensions),
                        searchDir, modulePath, extensions, extension)

findModuleFileWith(searchDir, modulePath, extensions, extension) ==
  IF extension # Undefined /\ InSeq(extension, extensions)
  THEN explicitExtension(join(searchDir, modulePath), extension)
  ELSE afterBroadSearch(BroadSearch(searchDir, modulePath, extensions),
                        searchDir, modulePath, extensions, extension)

findModuleFile(searchDir, modulePath, extensions) ==
  findModuleFileWith(searchDir, modulePath, extensions, getExtensionFromPath(modulePath))

-----------------------------------------------------------------------------
(* Resolving within a package.  Results also say whether the package       *)
(* manifest read threw: then module and trace are those up to the throw.   *)

isString(v) == v # Undefined

Nothing == [module |-> NoModule, trace |-> << >>, thrown |-> FALSE]

Thrown == [module |-> NoModule, trace |-> << >>, thrown |-> TRUE]

Returned(found) == [module |-> found.module, trace |-> found.trace, thrown |-> FALSE]

\* first, and second after it only if first neither resolved nor threw
OrElse(first, second) ==
  IF first.thrown \/ IsModule(first.module) THEN first
  ELSE [module |-> second.module, trace |-> first.trace \o second.trace, thrown |-> second.thrown]

Logged(message, found) == [found EXCEPT !.trace = << message >> \o @]

\* entry points that try typings after types
EntryPointsTypingsToo(pkg, extensions) ==
  (IF InSeq(Dts, extensions) /\ isString(pkg.types)
   THEN << [message |-> << "Package has 'types' field '%s'.", pkg.types >>, modulePath |-> pkg.types] >>
   ELSE << >>)
  \o (IF InSeq(Dts, extensions) /\ isString(pkg.typings)
      THEN << [message |-> << "Package has 'typings' field '%s'.", pkg.typings >>, modulePath |-> pkg.typings] >>
      ELSE << >>)
  \o (IF isString(pkg.main)
      THEN << [message |-> << "Package has 'main' field '%s'.", pkg.main >>, modulePath |-> pkg.main] >>
      ELSE << >>)
  \o << [message |-> << "Searching for index file." >>, modulePath |-> << "index" >>] >>

\* lines 1234-1253: the entry points to try, in order, each with the line logged before it
EntryPoints(pkg, extensions) ==
  (IF ~InSeq(Dts, extensions) THEN << >>
   ELSE IF isString(pkg.types)
        THEN << [message |-> << "Package has 'types' field '%s'.", pkg.types >>, modulePath |-> pkg.types] >>
        ELSE IF isString(pkg.typings)
             THEN << [message |-> << "Package has 'typings' field '%s'.", pkg.typings >>, modulePath |-> pkg.typings] >>
             ELSE << >>)
  \o (IF isString(pkg.main)
      THEN << [message |-> << "Package has 'main' field '%s'.", pkg.main >>, modulePath |-> pkg.main] >>
      ELSE << >>)
  \o << [message |-> << "Searching for index file." >>, modulePath |-> << "index" >>] >>

\* each entry point is tried only if (!module) still holds
RECURSIVE tryEntryPoints(_, _, _)
tryEntryPoints(packageDir, entryPoints, extensions) ==
  IF entryPoints = << >> THEN Nothing
  ELSE OrElse(Logged(Head(entryPoints).message,
                     Returned(findModuleFile(packageDir, Head(entryPoints).modulePath, extensions))),
              tryEntryPoints(packageDir, Tail(entryPoints), extensions))

\* modulePath Undefined: lines 1226-1255; otherwise line 1223, as the only entry point
resolveModule(packageDir, modulePath, extensions) ==
  IF modulePath = Undefined /\ readPackage(packageDir).throws THEN Thrown
  ELSE IF modulePath = Undefined
       THEN tryEntryPoints(packageDir, EntryPoints(readPackage(packageDir), extensions), extensions)
       ELSE Returned(findModuleFile(packageDir, modulePath, extensions))

resolveWorkspaceModule(moduleRef, extensions) ==
  Logged(<< "Loading module from workspace package '%s'.", moduleRef.workspace.name >>,
         resolveModule(moduleRef.workspace.path, moduleRef.path, extensions))

\* The resolveModule calls of resolvePackageModule in order: in the package
\* (lines 1315, 1320), then in its @types package (lines 1341, 1349).
Attempt(isTypes, pkgDir, first, modulePath, extensions) == [isTypes |-> isTypes, pkgDir |-> pkgDir, first |-> first, modulePath |-> modulePath, extensions |-> extensions]

\* attempts that turn to the @types package only when the package itself was not found
PackageAttemptsTypesWhenMissing(pkgDir, typesPkgDir, modulePath, extensions) ==
  IF pkgDir # Undefined
  THEN << Attempt(FALSE, pkgDir, TRUE, modulePath, extensions) >>
       \o (IF modulePath # Undefined THEN << Attempt(FALSE, pkgDir, FALSE, Undefined, << Dts >>) >> ELSE << >>)
  ELSE IF typesPkgDir = Undefined THEN << >>
       ELSE << Attempt(TRUE, typesPkgDir, TRUE, modulePath, host.extensionsTypeScript) >>
            \o (IF modulePath # Undefined THEN << Attempt(TRUE, typesPkgDir, FALSE, Undefined, << Dts >>) >> ELSE << >>)

PackageAttempts(pkgDir, typesPkgDir, modulePath, extensions) ==
  (IF pkgDir = Undefined THEN << >>
   ELSE << Attempt(FALSE, pkgDir, TRUE, modulePath, extensions) >>
        \o (IF modulePath # Undefined THEN << Attempt(FALSE, pkgDir, FALSE, Undefined, << Dts >>) >> ELSE << >>))
  \o (IF typesPkgDir = Undefined THEN << >>
      ELSE << Attempt(TRUE, typesPkgDir, TRUE, modulePath, host.extensionsTypeScript) >>
           \o (IF modulePath # Undefined THEN << Attempt(TRUE, typesPkgDir, FALSE, Undefined, << Dts >>) >> ELSE << >>))

AttemptBanner(attempt) ==
  IF ~attempt.first THEN << >>
  ELSE IF attempt.isTypes
       THEN << << "Loading module from external @types package '%s'.", attempt.pkgDir >> >>
       ELSE << << "Loading module from external package '%s'.", attempt.pkgDir >> >>

RECURSIVE tryAttempts(_)
tryAttempts(attempts) ==
  IF attempts = << >> THEN Nothing
  ELSE OrElse([resolveModule(Head(attempts).pkgDir, Head(attempts).modulePath, Head(attempts).extensions)
                 EXCEPT !.trace = AttemptBanner(Head(attempts)) \o @],
              tryAttempts(Tail(attempts)))

resolvePackageModule(moduleRef, searchDir, extensions) ==
  tryAttempts(PackageAttempts(
    findPackageDependencyDir(moduleRef, searchDir),
    findPackageDependencyDir([isPackage |-> TRUE, scope |-> << "@types" >>,
                              name |-> getMangledPackageName(moduleRef), path |-> moduleRef.path],
                             searchDir),
    moduleRef.path, extensions))

resolveFileModule(moduleRef, searchDir, extensions) ==
  Logged(<< "Loading module from directory '%s'.", searchDir >>,
         Returned(findModuleFile(searchDir, moduleRef.path, extensions)))

-----------------------------------------------------------------------------
(* Which failures are shown *)

builtinModules == { << "fs" >>, << "path" >>, << "os" >> }

toLowerCase(token) ==
  CASE token = "NODE:" -> "node:"
    [] token = "PNG" -> "png"
    [] token = "CSS" -> "css"
    [] token = "iOS" -> "ios"
    [] token = "Windows" -> "windows"
    [] OTHER -> token

multimediaExts ==
  { "aac", "aiff", "bmp", "caf", "gif", "html", "jpeg", "jpg", "m4a", "m4v", "mov", "mp3",
    "mp4", "mpeg", "mpg", "obj", "otf", "pdf", "png", "psd", "svg", "ttf", "wav", "webm", "webp" }

codeExts == { "css" }

\* the last segment of a path
basename(p) == Substring(p, LastSep(p))

LastDot(base) ==
  IF \E i \in 2..Len(base) : base[i] = "."
  THEN CHOOSE i \in 2..Len(base) : base[i] = "." /\ \A j \in (i + 1)..Len(base) : base[j] # "."
  ELSE 0

extnameOf(base, dot) == IF dot = 0 THEN << >> ELSE Substring(base, dot - 1)

\* path.extname: from the last "." of the last path segment, unless that is its first character
extname(p) == extnameOf(basename(p), LastDot(basename(p)))

\* e.match(/\.(...)$/i) for the extension e of a path
MatchesExts(e, exts) == Len(e) = 2 /\ toLowerCase(e[2]) \in exts

shouldShowResolverFailure(moduleName) ==
  IF \/ moduleName \in builtinModules
     \/ moduleName = << "fs", sep, "promises" >>
     \/ (moduleName # << >> /\ toLowerCase(moduleName[1]) = "node:")
  THEN FALSE
  ELSE IF MatchesExts(extname(moduleName), multimediaExts) THEN FALSE
       ELSE IF MatchesExts(extname(moduleName), codeExts) THEN FALSE
            ELSE TRUE

-----------------------------------------------------------------------------
(* resolveModuleNames *)

\* a dispatch that asks for an external package before it asks for a workspace
resolveRefPackageFirst(workspaceRef, moduleRef, searchDir, extensions) ==
  IF isPackageModuleRef(moduleRef) THEN resolvePackageModule(moduleRef, searchDir, extensions)
  ELSE IF workspaceRef.found THEN resolveWorkspaceModule(workspaceRef, extensions)
       ELSE IF isFileModuleRef(moduleRef) THEN resolveFileModule(moduleRef, searchDir, extensions)
            ELSE Nothing

\* a dispatch that goes on to the external package or the directory when the workspace fails
resolveRefFallingBack(workspaceRef, moduleRef, searchDir, extensions) ==
  OrElse(IF workspaceRef.found THEN resolveWorkspaceModule(workspaceRef, extensions) ELSE Nothing,
         IF isPackageModuleRef(moduleRef) THEN resolvePackageModule(moduleRef, searchDir, extensions)
         ELSE resolveFileModule(moduleRef, searchDir, extensions))

\* lines 1445-1461, with the workspace reference and the parsed reference in hand
resolveRef(workspaceRef, moduleRef, searchDir, extensions) ==
  IF workspaceRef.found THEN resolveWorkspaceModule(workspaceRef, extensions)
  ELSE IF isPackageModuleRef(moduleRef) THEN resolvePackageModule(moduleRef, searchDir, extensions)
       ELSE IF isFileModuleRef(moduleRef) THEN resolveFileModule(moduleRef, searchDir, extensions)
            ELSE Nothing

\* lines 1439-1462: the module of one (substituted) name
resolveName(moduleName, containingFile, extensions) ==
  resolveRef(queryWorkspaceModuleRef(moduleName, containingFile), parseModuleRef(moduleName),
             dirname(containingFile), extensions)

\* lines 1465-1475
logSuccess(T, moduleName, module) ==
  endSuccess(logAll(T, <<
    << "File %s exists - using it as a module resolution result.", module.resolvedFileName >>,
    << "======== Module name '%s' was successfully resolved to '%s' ========",
       moduleName, module.resolvedFileName >> >>))

\* a loop that shows every failure
endUnresolvedShowingAll(T, moduleName) == endFailure(T)

\* lines 1485-1489
endUnresolved(T, moduleName) == IF shouldShowResolverFailure(moduleName) THEN endFailure(T) ELSE reset(T)

\* lines 1476-1490
logFailure(T, moduleName) ==
  endUnresolved(logAll(T, <<
    << "Failed to resolve module %s to a file.", moduleName >>,
    << "======== Module name '%s' failed to resolve to a file ========", moduleName >> >>), moduleName)

\* a loop that pushes only the modules it resolved
recordOutcomeSkippingUnresolved(acc, moduleName, module) ==
  [resolutions |-> IF IsModule(module) THEN Append(acc.resolutions, module) ELSE acc.resolutions,
   T |-> IF IsModule(module) THEN logSuccess(acc.T, moduleName, module) ELSE logFailure(acc.T, moduleName),
   thrown |-> FALSE]

\* lines 1464-1490: push the module, log the outcome and end the transaction
recordOutcome(acc, moduleName, module) ==
  [resolutions |-> Append(acc.resolutions, module),
   T |-> IF IsModule(module) THEN logSuccess(acc.T, moduleName, module) ELSE logFailure(acc.T, moduleName),
   thrown |-> FALSE]

\* the rest of an iteration once the module search returned found (or threw)
afterSearch(acc, T, moduleName, found) ==
  IF found.thrown THEN [resolutions |-> acc.resolutions, T |-> logAll(T, found.trace), thrown |-> TRUE]
  ELSE recordOutcome([resolutions |-> acc.resolutions, T |-> logAll(T, found.trace), thrown |-> FALSE],
                     moduleName, found.module)

\* lines 1437-1462, with replaced the outcome of the substitution
afterReplace(acc, T, replaced, containingFile, extensions) ==
  afterSearch(acc, logAll(T, replaced.trace), replaced.m,
              resolveName(replaced.m, containingFile, extensions))

\* lines 1425-1491: one iteration of the loop over moduleNames
resolveIteration(acc, name, containingFile, extensions) ==
  afterReplace(acc,
               log(begin(acc.T), << "======== Resolving module '%s' from '%s' ========", name, containingFile >>),
               replaceReactNativePackageName(name), containingFile, extensions)

RECURSIVE resolveLoop(_, _, _, _)
resolveLoop(acc, moduleNames, containingFile, extensions) ==
  IF moduleNames = << >> \/ acc.thrown THEN acc
  ELSE resolveLoop(resolveIteration(acc, Head(moduleNames), containingFile, extensions),
                   Tail(moduleNames), containingFile, extensions)

resolveModuleNames(T, moduleNames, containingFile) ==
  resolveLoop([resolutions |-> << >>, T |-> T, thrown |-> FALSE], moduleNames, containingFile,
              IF hasExtension(containingFile, Dts) THEN host.extensionsTypeScript ELSE host.extensionsAll)

-----------------------------------------------------------------------------
(* The command line of rn-tsc *)

\* 1-based Array.indexOf, 0 when name is not in args
IndexOf(args, name) ==
  IF InSeq(name, args)
  THEN CHOOSE i \in 1..Len(args) : args[i] = name /\ \A j \in 1..(i - 1) : args[j] # name
  ELSE 0

\* args.splice(index, count)
Splice(args, index, count) == SubSeq(args, 1, index - 1) \o SubSeq(args, index + count, Len(args))

Extracted(args, value, thrown) == [args |-> args, value |-> value, thrown |-> thrown]

valueAt(args, index) ==
  IF index = 0 THEN Extracted(args, Undefined, FALSE)
  ELSE IF index = Len(args) THEN Extracted(args, Undefined, TRUE)
       ELSE Extracted(Splice(args, index, 2), << args[index + 1] >>, FALSE)

extractParameterValue(args, name) == valueAt(args, IndexOf(args, name))

flagAt(args, index) ==
  IF index = 0 THEN Extracted(args, FALSE, FALSE) ELSE Extracted(Splice(args, index, 1), TRUE, FALSE)

extractParameterFlag(args, name) == flagAt(args, IndexOf(args, name))

NoCommandLine ==
  [thrown |-> FALSE, error |-> Undefined, tscArgs |-> << >>,
   rntsc |-> [platform |-> Undefined, platformExtensions |-> Undefined,
              disableReactNativePackageSubstitution |-> FALSE,
              traceReactNativeModuleResolutionErrors |-> FALSE, traceResolutionLog |-> Undefined]]

mustBeFollowedByValue(name) ==
  [NoCommandLine EXCEPT !.thrown = TRUE, !.error = << "%s must be followed by a value", name >>]

reportParameterDependencyViolation(dependent, dependee) ==
  [NoCommandLine EXCEPT !.thrown = TRUE,
                        !.error = << "%s can only be used in conjunction with %s", dependent, dependee >>]

afterTraceResolutionLog(platform, platformExtensions, disable, traceErrors, l) ==
  IF l.thrown THEN mustBeFollowedByValue("--traceResolutionLog")
  ELSE [thrown |-> FALSE, error |-> Undefined, tscArgs |-> l.args,
        rntsc |-> [platform |-> platform, platformExtensions |-> platformExtensions,
                   disableReactNativePackageSubstitution |-> disable,
                   traceReactNativeModuleResolutionErrors |-> traceErrors,
                   traceResolutionLog |-> l.value]]

afterTraceErrors(platform, platformExtensions, disable, t) ==
  IF platform = Undefined /\ t.value
  THEN reportParameterDependencyViolation("--traceReactNativeModuleResolutionErrors", "--platform")
  ELSE afterTraceResolutionLog(platform, platformExtensions, disable, t.value,
                               extractParameterValue(t.args, "--traceResolutionLog"))

\* a parser without the dependency check of --disableReactNativePackageSubstitution
afterDisableUnchecked(platform, platformExtensions, d) ==
  afterTraceErrors(platform, platformExtensions, d.value,
                   extractParameterFlag(d.args, "--traceReactNativeModuleResolutionErrors"))

afterDisable(platform, platformExtensions, d) ==
  IF platform = Undefined /\ d.value
  THEN reportParameterDependencyViolation("--disableReactNativePackageSubstitution", "--platform")
  ELSE afterTraceErrors(platform, platformExtensions, d.value,
                        extractParameterFlag(d.args, "--traceReactNativeModuleResolutionErrors"))

afterPlatformExtensions(platform, e) ==
  IF e.thrown THEN mustBeFollowedByValue("--platformExtensions")
  ELSE IF platform = Undefined /\ e.value # Undefined
       THEN reportParameterDependencyViolation("--platformExtensions", "--platform")
       ELSE afterDisable(platform, e.value,
                         extractParameterFlag(e.args, "--disableReactNativePackageSubstitution"))

afterPlatform(p) ==
  IF p.thrown THEN mustBeFollowedByValue("--platform")
  ELSE afterPlatformExtensions(p.value, extractParameterValue(p.args, "--platformExtensions"))

parseRnTsc(args) == afterPlatform(extractParameterValue(args, "--platform"))

-----------------------------------------------------------------------------
(* The compile step of rn-tsc.  A program is what its methods return; the    *)
(* result keeps the methods called, the diagnostics printed, the lines       *)
(* written to the console and the exit code.                                 *)

Error == "Error"

Warning == "Warning"

Diagnostic(code, category) == [code |-> code, category |-> category]

\* addRange(to, from)
addRange(to, from) == to \o from

Collected(all, queried) == [all |-> all, queried |-> queried]

\* lines 652-654
withSemantic(program, c) ==
  IF Len(c.all) = Len(program.configFileParsing)
  THEN Collected(addRange(c.all, program.semantic), Append(c.queried, "getSemanticDiagnostics"))
  ELSE c

\* lines 650-655
withGlobal(program, c) ==
  IF ~program.listFilesOnly
  THEN withSemantic(program, Collected(addRange(c.all, program.global), Append(c.queried, "getGlobalDiagnostics")))
  ELSE c

\* a driver that asks for the options diagnostics whatever the syntactic ones were
withOptionsAlways(program, c) ==
  withGlobal(program, Collected(addRange(c.all, program.options), Append(c.queried, "getOptionsDiagnostics")))

\* lines 648-656
withOptions(program, c) ==
  IF Len(c.all) = Len(program.configFileParsing)
  THEN withGlobal(program, Collected(addRange(c.all, program.options), Append(c.queried, "getOptionsDiagnostics")))
  ELSE c

\* lines 642-656
collect(program) ==
  withOptions(program, Collected(addRange(program.configFileParsing, program.syntactic),
                                 << "getConfigFileParsingDiagnostics", "getSyntacticDiagnostics" >>))

\* lines 658-660
emitResult(program) ==
  IF program.listFilesOnly THEN [emitSkipped |-> TRUE, diagnostics |-> << >>]
  ELSE [emitSkipped |-> program.emitSkipped, diagnostics |-> program.emitDiagnostics]

\* lines 658-661
withEmit(program, c) ==
  Collected(addRange(c.all, emitResult(program).diagnostics),
            IF program.listFilesOnly THEN c.queried ELSE Append(c.queried, "emit"))

Range(s) == { s[i] : i \in 1..Len(s) }

Least(S) == CHOOSE d \in S : \A e \in S : d.code <= e.code

RECURSIVE Sorted(_)

SortedFrom(S, d) == << d >> \o Sorted(S \ { d })

Sorted(S) == IF S = { } THEN << >> ELSE SortedFrom(S, Least(S))

\* ts.sortAndDeduplicateDiagnostics: diagnostics without a file are ordered by
\* their code, and equal ones are kept once
sortAndDeduplicateDiagnostics(all) == Sorted(Range(all))

Errors(diagnostics) == Cardinality({ i \in 1..Len(diagnostics) : diagnostics[i].category = Error })

\* line 679
foundErrors(errors) ==
  IF errors = 1 THEN << "Found 1 error." >> ELSE << "Found ", ToString(errors), " errors." >>

\* lines 677-681
consoleLines(errors) == IF errors > 0 THEN << << >>, foundErrors(errors), << >> >> ELSE << >>

\* lines 684-689
exitCode(skipped, diagnostics) ==
  IF skipped THEN "EmitSkipped" ELSE IF Len(diagnostics) > 0 THEN "EmitFailed" ELSE "Success"

NoEmit == [queried |-> << >>, printed |-> << >>, console |-> << >>, exitCode |-> "none"]

\* lines 666-689
report(program, c, diagnostics) ==
  [queried |-> c.queried, printed |-> diagnostics, console |-> consoleLines(Errors(diagnostics)),
   exitCode |-> exitCode(emitResult(program).emitSkipped, diagnostics)]

reportCollected(program, c) == report(program, c, sortAndDeduplicateDiagnostics(c.all))

emit(program) == reportCollected(program, withEmit(program, collect(program)))

-----------------------------------------------------------------------------
(* The repository the resolver runs in *)

MaxFiles == 2
MaxNames == 2
MaxCalls == 3
MaxArgs == 4
\* the links the operating system follows in one path lookup before stat fails
SymloopMax == 3

MaxDiagnostics == 2

Repo == << sep, "repo" >>
AppDir == Repo \o << sep, "app" >>
LibRoot == Repo \o << sep, "packages", sep, "lib" >>
LibFooRoot == Repo \o << sep, "packages", sep, "lib", "-foo" >>
NodeModules == Repo \o << sep, "node_modules" >>
ExtLibDir == NodeModules \o << sep, "lib" >>
ExtDir == NodeModules \o << sep, "ext" >>
TypesExtDir == NodeModules \o << sep, "@types", sep, "ext" >>
RnDir == NodeModules \o << sep, "react-native" >>
RnwDir == NodeModules \o << sep, "react-native", "-windows" >>

PackageDirs == { LibRoot, ExtLibDir, ExtDir, TypesExtDir, RnDir, RnwDir }

\* getWorkspaces(process.cwd()): the in-repo packages
Workspaces == << [name |-> << "lib" >>, path |-> LibRoot] >>

\* a repository with a second in-repo package, lib-foo, beside lib
WorkspacesWithLibFoo == Workspaces \o << [name |-> << "lib", "-foo" >>, path |-> LibFooRoot] >>

UpToPackages == << ".", ".", sep, "packages", sep >>

QueryNames ==
  { << ".", sep, "sub" >>, << "lib" >>, << "lib", sep, "sub" >>,
    UpToPackages \o << "lib" >>, UpToPackages \o << "lib", sep >>, UpToPackages \o << "lib", sep, "sub" >>,
    UpToPackages \o << "lib", sep, ".", sep, "sub", sep >>,
    UpToPackages \o << "lib", "-foo" >>, UpToPackages \o << "lib", "-foo", sep, "sub" >>,
    LibRoot \o << sep, "sub", sep, ".", ".", sep, "index" >> }

ContainingFiles == { AppDir \o << sep, "x", ".", "ts" >>, AppDir \o << sep, "t", ".", "d", ".", "ts" >> }

QueryContainingFiles == ContainingFiles \cup { LibRoot \o << sep, "a", ".", "ts" >> }

File(dir, base, pext, ext) == dir \o << sep >> \o base \o pext \o ext

Ancestors(p) == { SubSeq(p, 1, i - 1) : i \in { j \in 2..Len(p) : p[j] = sep } } \cup { << sep >> }

DirsOf(fs) == UNION { Ancestors(f) : f \in fs } \cup Ancestors(LibRoot) \cup { LibRoot, AppDir }

RECURSIVE SubsetsUpTo(_, _)
SubsetsUpTo(U, k) ==
  IF k = 0 THEN { { } }
  ELSE { { } } \cup { S \cup { x } : S \in SubsetsUpTo(U, k - 1), x \in U }

Sub == << "sub" >>
Index == << "index" >>
None == << >>

AllExts == { Ts, Tsx, Dts, Js, Jsx, Json }

FinderFiles ==
  { File(AppDir, Sub, pext, ext) : pext \in { << ".", "ios" >>, << ".", "native" >>, None }, ext \in AllExts }
    \cup { File(AppDir, Sub \o << sep >> \o Index, None, Ts),
           File(AppDir, Sub \o << sep >> \o Index, << ".", "ios" >>, Dts) }

FinderModulePaths ==
  { << ".", sep >> \o Sub \o e : e \in { None, Js, Ts, << ".", "d" >>, Dts, Json } }

EngineFiles ==
  { File(AppDir, Sub, None, Ts), File(AppDir, Sub, None, Tsx), File(AppDir, Sub, None, Dts),
    File(LibRoot, Sub, None, Tsx), File(LibRoot, Index, None, Dts),
    File(ExtLibDir, Sub, None, Ts), File(ExtLibDir, Index, None, Dts),
    File(ExtDir, Sub, None, Tsx), File(ExtDir, Index, None, Dts),
    File(TypesExtDir, Sub, None, Tsx), File(TypesExtDir, Sub, None, Dts), File(TypesExtDir, Index, None, Dts),
    File(RnDir, Index, None, Dts),
    File(RnwDir, Index, None, Dts), File(RnwDir, Sub, None, Ts) }

EngineNames ==
  { << ".", sep, "sub" >>, << ".", sep, "logo", ".", "png" >>,
    << ".", ".", sep, "packages", sep, "lib", sep, "sub" >>,
    << "lib" >>, << "lib", sep, "sub" >>, << "ext" >>, << "ext", sep, "sub" >>,
    << "react-native" >>, << "react-native", sep, "sub" >>, << "react-native", "-svg" >>,
    << "fs" >> }

ReplaceNames ==
  EngineNames \cup { << "react-native", "-windows", sep, "sub" >>, << "@acme", sep, "react-native" >> }

Platforms == { "ios", "android", "custom", "windows", "macos", "win32" }

Plain == [types |-> Undefined, typings |-> Undefined, main |-> Undefined, throws |-> FALSE]

ManifestChoices ==
  { Plain,
    [Plain EXCEPT !.main = << "sub", ".", "js" >>],
    [Plain EXCEPT !.types = << "sub", ".", "d", ".", "ts" >>] }

RichFileSystems ==
  { { File(AppDir, Sub, None, Ts), File(LibRoot, Index, None, Dts), File(ExtDir, Sub, None, Tsx),
      File(RnwDir, Index, None, Dts) },
    { File(AppDir, Sub, None, Tsx), File(TypesExtDir, Sub, None, Dts), File(ExtLibDir, Index, None, Dts),
      File(RnDir, Index, None, Dts) } }

Batches == UNION { [1..n -> EngineNames] : n \in 0..MaxNames }

-----------------------------------------------------------------------------
(* The state machine *)

NoProgram ==
  [listFilesOnly |-> FALSE, configFileParsing |-> << >>, syntactic |-> << >>, options |-> << >>,
   global |-> << >>, semantic |-> << >>, emitSkipped |-> FALSE, emitDiagnostics |-> << >>]

NoRequest == [op |-> "none", moduleNames |-> << >>, containingFile |-> Undefined, searchDir |-> Undefined, modulePath |-> Undefined, extensions |-> << >>, m |-> Undefined, message |-> Undefined, directives |-> 0, args |-> << >>, menu |-> "none", left |-> 0, program |-> NoProgram]

NoResult == [done |-> FALSE, thrown |-> FALSE, resolutions |-> << >>, module |-> NoModule, m |-> Undefined, trace |-> << >>, ref |-> NoWorkspaceRef, commandLine |-> NoCommandLine, emitted |-> NoEmit]

\* a compilation: the calls the compiler makes on one host, one after the other
SessionFiles == { File(AppDir, Sub, None, Ts), File(ExtDir, Index, None, Dts) }

SessionBatches ==
  { << << ".", sep, "sub" >> >>, << << "missing" >> >>, << << "fs" >> >>, << << "ext" >> >>,
    << << "missing" >>, << ".", sep, "sub" >> >> }

HostMenu ==
  { [NoRequest EXCEPT !.op = "trace", !.message = << "trace" >>] }
    \cup { [NoRequest EXCEPT !.op = "resolveTypeReferenceDirectives", !.directives = n] : n \in 0..1 }
    \cup { [NoRequest EXCEPT !.op = "getResolvedModuleWithFailedLookupLocationsFromCache"] }
    \cup { [NoRequest EXCEPT !.op = "resolveModuleNames", !.moduleNames = b,
                             !.containingFile = AppDir \o << sep, "x", ".", "ts" >>] : b \in SessionBatches }

\* the methods of a ResolverLog
LogMenu ==
  { [NoRequest EXCEPT !.op = op] : op \in { "begin", "endSuccess", "endFailure", "reset" } }
    \cup { [NoRequest EXCEPT !.op = "log", !.message = << "line" >>] }

Menu(menu) == IF menu = "host" THEN HostMenu ELSE IF menu = "log" THEN LogMenu ELSE { }

StartIn(workspaces, options, platform, disable, traceErrors, fs, manifest, request) ==
  /\ host = ReactNativeResolverHost(options, platform, << "native" >>, disable, workspaces)
  /\ resolverLog = ResolverLog(ResolverLogModeOf(options, traceErrors), Undefined)
  /\ sink = << >>
  /\ files = fs
  /\ dirs = DirsOf(fs)
  /\ manifests = [d \in PackageDirs |-> manifest]
  /\ req = request
  /\ res = NoResult

Start(options, platform, disable, traceErrors, fs, manifest, request) ==
  StartIn(Workspaces, options, platform, disable, traceErrors, fs, manifest, request)

Options(checkJs, resolveJsonModule, traceResolution) == [checkJs |-> checkJs, resolveJsonModule |-> resolveJsonModule, traceResolution |-> traceResolution]

\* findModuleFile on the files of one directory, with each list of extensions the host passes
InitFind ==
  \E checkJs \in BOOLEAN, json \in BOOLEAN, fs \in SubsetsUpTo(FinderFiles, MaxFiles), mp \in FinderModulePaths :
    \E exts \in { ExtensionsAllOf(Options(checkJs, json, FALSE)) } \cup (IF checkJs \/ json THEN { } ELSE { << Dts >> }) :
      Start(Options(checkJs, json, FALSE), "ios", FALSE, FALSE, fs, Plain,
            [NoRequest EXCEPT !.op = "findModuleFile", !.searchDir = AppDir, !.modulePath = mp, !.extensions = exts])

\* the substitution on every platform
InitReplace ==
  \E platform \in Platforms, disable \in BOOLEAN, traceResolution \in BOOLEAN, traceErrors \in BOOLEAN, m \in ReplaceNames :
    Start(Options(FALSE, FALSE, traceResolution), platform, disable, traceErrors, { }, Plain,
          [NoRequest EXCEPT !.op = "replaceReactNativePackageName", !.m = m])

\* one name resolved against the files of the whole repository
InitSingle ==
  \E platform \in { "ios", "windows" }, fs \in SubsetsUpTo(EngineFiles, MaxFiles) :
    \E manifest \in ManifestChoices, name \in EngineNames, f \in ContainingFiles :
      Start(Options(FALSE, FALSE, TRUE), platform, FALSE, FALSE, fs, manifest,
            [NoRequest EXCEPT !.op = "resolveModuleNames", !.moduleNames = << name >>, !.containingFile = f])

\* batches of names
InitBatch ==
  \E traceResolution \in BOOLEAN, traceErrors \in BOOLEAN, fs \in RichFileSystems, names \in Batches, f \in ContainingFiles :
    \E manifest \in { Plain, malformed } :
      Start(Options(TRUE, FALSE, traceResolution), "windows", FALSE, traceErrors, fs, manifest,
            [NoRequest EXCEPT !.op = "resolveModuleNames", !.moduleNames = names, !.containingFile = f])

\* the workspace query, in a repository with and without the package lib-foo
InitQuery ==
  \E workspaces \in { Workspaces, WorkspacesWithLibFoo }, name \in QueryNames, f \in QueryContainingFiles :
    StartIn(workspaces, Options(FALSE, FALSE, FALSE), "ios", FALSE, FALSE, { }, Plain,
            [NoRequest EXCEPT !.op = "queryWorkspaceModuleRef", !.moduleNames = << name >>, !.containingFile = f])

\* platforms as a command line may spell them
MixedCasePlatforms == { "iOS", "Windows" }

MixedCaseFiles ==
  { File(AppDir, Sub, << ".", p >>, Ts) : p \in { "ios", "windows" } } \cup { File(AppDir, Sub, None, Ts) }

MixedCaseRequests ==
  { [NoRequest EXCEPT !.op = "replaceReactNativePackageName", !.m = m] : m \in ReplaceNames }
    \cup { [NoRequest EXCEPT !.op = "findModuleFile", !.searchDir = AppDir,
                             !.modulePath = << ".", sep >> \o Sub, !.extensions = << Ts, Tsx, Dts >>] }

\* a host constructed with a platform that is not in lower case
InitMixedCase ==
  \E platform \in MixedCasePlatforms, fs \in SubsetsUpTo(MixedCaseFiles, MaxFiles), request \in MixedCaseRequests :
    Start(Options(FALSE, FALSE, FALSE), platform, FALSE, FALSE, fs, Plain, request)

ValueOptions == { "--platform", "--platformExtensions", "--traceResolutionLog" }

FlagOptions == { "--disableReactNativePackageSubstitution", "--traceReactNativeModuleResolutionErrors" }

ArgValues == { "ios", "log.txt" }

CommandLines == UNION { [1..n -> ValueOptions \cup FlagOptions \cup ArgValues] : n \in 0..MaxArgs }

\* rn-tsc started with a command line
InitCommandLine ==
  \E args \in CommandLines :
    Start(Options(FALSE, FALSE, FALSE), "ios", FALSE, FALSE, { }, Plain,
          [NoRequest EXCEPT !.op = "parseRnTsc", !.args = args])

\* a workspace whose manifest names a JavaScript entry point
MainJs == << "lib", sep, "index", ".", "js" >>

LibLibDir == LibRoot \o << sep, "lib" >>

MainFiles ==
  { File(LibLibDir, Index, pext, ext) : pext \in { << ".", "ios" >>, None }, ext \in { Ts, Dts, Js } }
    \cup { File(LibRoot, Index, None, Ts), File(LibRoot, Index, None, Js) }

InitMain ==
  \E checkJs \in BOOLEAN, fs \in SubsetsUpTo(MainFiles, MaxFiles) :
    Start(Options(checkJs, FALSE, FALSE), "ios", FALSE, FALSE, fs, [Plain EXCEPT !.main = MainJs],
          [NoRequest EXCEPT !.op = "resolveModuleNames", !.moduleNames = << << "lib" >> >>,
                            !.containingFile = AppDir \o << sep, "x", ".", "ts" >>])

\* sub, sub/index, sub/index/index, ...: directories named index nested n deep, which is also
\* what stat reports for a link sub/index -> sub, up to the links one lookup may follow
RECURSIVE IndexChain(_)
IndexChain(n) == IF n = 0 THEN AppDir \o << sep >> \o Sub ELSE IndexChain(n - 1) \o << sep >> \o Index

ChainDirs(depth) == { IndexChain(n) : n \in 0..depth }

ChainFiles(depth) == { File(IndexChain(n), Index, None, Ts) : n \in 0..depth }

InitIndexChain ==
  \E depth \in 0..SymloopMax, modulePath \in { << ".", sep >> \o Sub, Sub \o << sep >> \o Index } :
    \E fs \in SubsetsUpTo(ChainFiles(depth), 1) :
      /\ host = ReactNativeResolverHost(Options(FALSE, FALSE, FALSE), "ios", << "native" >>, FALSE, Workspaces)
      /\ resolverLog = ResolverLog(Never, Undefined)
      /\ sink = << >>
      /\ files = fs
      /\ dirs = DirsOf(fs) \cup ChainDirs(depth)
      /\ manifests = [d \in PackageDirs |-> Plain]
      /\ req = [NoRequest EXCEPT !.op = "findModuleFile", !.searchDir = AppDir,
                                 !.modulePath = modulePath, !.extensions = << Ts, Tsx, Dts >>]
      /\ res = NoResult

\* a package with every combination of the entry point fields
TypesFile == << "t", ".", "d", ".", "ts" >>

TypingsFile == << "y", ".", "d", ".", "ts" >>

MainFile == << "m", ".", "ts" >>

EntryManifests ==
  { [types |-> t, typings |-> y, main |-> m, throws |-> FALSE] :
      t \in { Undefined, TypesFile }, y \in { Undefined, TypingsFile }, m \in { Undefined, MainFile } }
    \cup { malformed }

EntryFiles ==
  { ExtDir \o << sep >> \o f : f \in { TypesFile, TypingsFile, MainFile } }
    \cup { File(ExtDir, Index, None, Ts), File(ExtDir, Index, None, Dts), File(ExtDir, Sub, None, Ts) }

EntryExtensions == { << Ts, Tsx, Dts >>, << Ts, Tsx >>, << Dts >> }

InitEntry ==
  \E manifest \in EntryManifests, fs \in SubsetsUpTo(EntryFiles, MaxFiles) :
    \E modulePath \in { Undefined, Sub }, extensions \in EntryExtensions :
      Start(Options(FALSE, FALSE, FALSE), "ios", FALSE, FALSE, fs, manifest,
            [NoRequest EXCEPT !.op = "resolveModule", !.searchDir = ExtDir,
                              !.modulePath = modulePath, !.extensions = extensions])

TraceModes == { << FALSE, FALSE >>, << FALSE, TRUE >>, << TRUE, FALSE >> }

\* a sequence of calls on one host
InitHostSession ==
  \E mode \in TraceModes, manifest \in { Plain, malformed }, first \in HostMenu :
    Start(Options(FALSE, FALSE, mode[1]), "ios", FALSE, mode[2], SessionFiles, manifest,
          [first EXCEPT !.menu = "host", !.left = MaxCalls - 1])

\* a sequence of calls on one ResolverLog
InitLogSession ==
  \E mode \in TraceModes, first \in LogMenu :
    Start(Options(FALSE, FALSE, mode[1]), "ios", FALSE, mode[2], { }, Plain,
          [first EXCEPT !.menu = "log", !.left = MaxCalls - 1])

DiagnosticSources == { "configFileParsing", "syntactic", "options", "global", "semantic", "emitDiagnostics" }

Diagnostics == { Diagnostic(1, Error), Diagnostic(2, Error), Diagnostic(3, Warning) }

\* what the methods of a program return: at most MaxDiagnostics of them something
Reports ==
  { r \in [DiagnosticSources -> { << >> } \cup { << d >> : d \in Diagnostics }] :
      Cardinality({ source \in DiagnosticSources : r[source] # << >> }) <= MaxDiagnostics }

Program(listFilesOnly, emitSkipped, r) ==
  [listFilesOnly |-> listFilesOnly, configFileParsing |-> r["configFileParsing"], syntactic |-> r["syntactic"],
   options |-> r["options"], global |-> r["global"], semantic |-> r["semantic"],
   emitSkipped |-> emitSkipped, emitDiagnostics |-> r["emitDiagnostics"]]

\* rn-tsc about to compile a program
InitCompile ==
  \E listFilesOnly \in BOOLEAN, emitSkipped \in BOOLEAN, r \in Reports :
    Start(Options(FALSE, FALSE, FALSE), "ios", FALSE, FALSE, { }, Plain,
          [NoRequest EXCEPT !.op = "emit", !.program = Program(listFilesOnly, emitSkipped, r)])

Init == InitFind \/ InitReplace \/ InitSingle \/ InitBatch \/ InitQuery \/ InitHostSession \/ InitLogSession \/ InitMixedCase \/ InitCommandLine \/ InitMain \/ InitEntry \/ InitIndexChain \/ InitCompile

Log == [log |-> resolverLog, sink |-> sink]

\* the call returns: the log it wrote and its result
Return(T, result) ==
  /\ resolverLog' = T.log
  /\ sink' = T.sink
  /\ res' = result
  /\ UNCHANGED << host, files, dirs, manifests, req >>

Resolved(out) ==
  Return(out.T, [NoResult EXCEPT !.done = TRUE, !.thrown = out.thrown,
                                 !.resolutions = IF out.thrown THEN << >> ELSE out.resolutions])

ResolveModuleNames ==
  /\ req.op = "resolveModuleNames" /\ ~res.done
  /\ Resolved(resolveModuleNames(Log, req.moduleNames, req.containingFile))

Found(out) ==
  Return(logAll(Log, out.trace), [NoResult EXCEPT !.done = TRUE, !.module = out.module, !.trace = out.trace])

FindModuleFile ==
  /\ req.op = "findModuleFile" /\ ~res.done
  /\ Found(findModuleFile(req.searchDir, req.modulePath, req.extensions))

ModuleResolved(out) ==
  Return(logAll(Log, out.trace),
         [NoResult EXCEPT !.done = TRUE, !.thrown = out.thrown, !.module = out.module, !.trace = out.trace])

ResolveModule ==
  /\ req.op = "resolveModule" /\ ~res.done
  /\ ModuleResolved(resolveModule(req.searchDir, req.modulePath, req.extensions))

Replaced(out) ==
  Return(logAll(Log, out.trace), [NoResult EXCEPT !.done = TRUE, !.m = out.m, !.trace = out.trace])

ReplaceReactNativePackageName ==
  /\ req.op = "replaceReactNativePackageName" /\ ~res.done
  /\ Replaced(replaceReactNativePackageName(req.m))

QueryWorkspaceModuleRef ==
  /\ req.op = "queryWorkspaceModuleRef" /\ ~res.done
  /\ Return(Log, [NoResult EXCEPT !.done = TRUE,
                                  !.ref = queryWorkspaceModuleRef(req.moduleNames[1], req.containingFile)])

Done == [NoResult EXCEPT !.done = TRUE]

Parsed(out) == Return(Log, [NoResult EXCEPT !.done = TRUE, !.thrown = out.thrown, !.commandLine = out])

ParseRnTsc ==
  /\ req.op = "parseRnTsc" /\ ~res.done
  /\ Parsed(parseRnTsc(req.args))

\* trace(message), the compiler host's trace routed to the resolver
Trace ==
  /\ req.op = "trace" /\ ~res.done
  /\ Return(log(Log, req.message), Done)

\* what TypeScript traces while it resolves n type reference directives
TypeDirectiveTraces(n) ==
  IF host.options.traceResolution
  THEN [k \in 1..n |-> << "======== Resolving type reference directive ========" >>]
  ELSE << >>

ResolveTypeReferenceDirectives ==
  /\ req.op = "resolveTypeReferenceDirectives" /\ ~res.done
  /\ Return(endSuccess(logAll(begin(Log), TypeDirectiveTraces(req.directives))), Done)

\* the default resolver host's cache probe throws "Not implemented"
defaultCacheProbeThrows == TRUE

\* the rest of the cache probe after the default resolver's call
afterDefaultCacheProbe(T, thrown) ==
  [T |-> IF thrown THEN T ELSE endSuccess(T), thrown |-> thrown]

CacheProbed(out) == Return(out.T, [NoResult EXCEPT !.done = TRUE, !.thrown = out.thrown])

GetResolvedModuleWithFailedLookupLocationsFromCache ==
  /\ req.op = "getResolvedModuleWithFailedLookupLocationsFromCache" /\ ~res.done
  /\ CacheProbed(afterDefaultCacheProbe(begin(Log), defaultCacheProbeThrows))

Begin ==
  /\ req.op = "begin" /\ ~res.done
  /\ Return(begin(Log), Done)

LogMessage ==
  /\ req.op = "log" /\ ~res.done
  /\ Return(log(Log, req.message), Done)

EndSuccess ==
  /\ req.op = "endSuccess" /\ ~res.done
  /\ Return(endSuccess(Log), Done)

EndFailure ==
  /\ req.op = "endFailure" /\ ~res.done
  /\ Return(endFailure(Log), Done)

Reset ==
  /\ req.op = "reset" /\ ~res.done
  /\ Return(reset(Log), Done)

Emitted(out) == Return(Log, [NoResult EXCEPT !.done = TRUE, !.emitted = out])

Emit ==
  /\ req.op = "emit" /\ ~res.done
  /\ Emitted(emit(req.program))

\* the caller goes on to its next call
NextCall ==
  /\ res.done /\ req.left > 0
  /\ \E r \in Menu(req.menu) : req' = [r EXCEPT !.menu = req.menu, !.left = req.left - 1]
  /\ res' = NoResult
  /\ UNCHANGED << host, resolverLog, sink, files, dirs, manifests >>

Next ==
  \/ ResolveModuleNames \/ FindModuleFile \/ ReplaceReactNativePackageName \/ QueryWorkspaceModuleRef
  \/ Trace \/ ResolveTypeReferenceDirectives \/ GetResolvedModuleWithFailedLookupLocationsFromCache
  \/ Begin \/ LogMessage \/ EndSuccess \/ EndFailure \/ Reset
  \/ ParseRnTsc \/ ResolveModule \/ Emit
  \/ NextCall

Spec == Init /\ [][Next]_vars

-----------------------------------------------------------------------------
(* Properties.  What the calls are observed by: the request and its result. *)

ResolveReturned == req.op = "resolveModuleNames" /\ res.done /\ ~res.thrown

FindReturned == req.op = "findModuleFile" /\ res.done

ReplaceReturned == req.op = "replaceReactNativePackageName" /\ res.done

AllowedFor(containingFile) ==
  IF hasExtension(containingFile, Dts) THEN host.extensionsTypeScript ELSE host.extensionsAll

\* what one specifier alone resolves to from the containing file
OutcomeOf(name, containingFile) ==
  resolveName(replaceReactNativePackageName(name).m, containingFile, AllowedFor(containingFile)).module

\* the module path of the request has no explicit extension that is allowed
BroadRequest ==
  /\ FindReturned
  /\ ~InSeq(getExtensionFromPath(req.modulePath), req.extensions)

Candidate(pext, e) == join(req.searchDir, req.modulePath \o pext \o e)

PlatformSuffix == << ".", host.platform >>

NativeSuffix == << ".", "native" >>

TierFiles(pext) == { i \in 1..Len(req.extensions) : isFile(Candidate(pext, req.extensions[i])) }

ClaimedOrder == << Ts, Tsx, Dts, Js, Jsx, Json >>

Rank(e) == CHOOSE i \in 1..Len(ClaimedOrder) : ClaimedOrder[i] = e

InApp(base, ext) == File(AppDir, base, None, ext)

SubSpecifier == << ".", sep, "sub" >>

\* C1: a resolveModuleNames call that returns yields exactly one entry per
\* specifier, and entry i is what names[i] alone resolves to (a module or
\* undefined): nothing is dropped, duplicated or reordered.
C1_OneOutcomePerName ==
  ResolveReturned =>
    /\ Len(res.resolutions) = Len(req.moduleNames)
    /\ \A i \in 1..Len(req.moduleNames) :
         res.resolutions[i] = OutcomeOf(req.moduleNames[i], req.containingFile)

\* an unresolvable specifier ahead of a workspace specifier: undefined keeps its place
C1_Witness ==
  /\ ResolveReturned
  /\ req.moduleNames = << << "fs" >>, << "lib" >> >>
  /\ res.resolutions = << NoModule, Module(File(LibRoot, Index, None, Dts), Dts) >>

\* C2: whenever a file <s>.<platform>.<e> with an allowed extension e exists,
\* findModuleFile returns a file carrying the platform suffix, whatever
\* unsuffixed or extra-platform-extension files exist beside it; and when no
\* platform-suffixed file exists, a file carrying the extra platform
\* extension is returned before an unsuffixed one.
C2_PlatformPriority ==
  BroadRequest =>
    /\ TierFiles(PlatformSuffix) # { } =>
         /\ IsModule(res.module)
         /\ res.module.resolvedFileName = Candidate(PlatformSuffix, res.module.extension)
    /\ (TierFiles(PlatformSuffix) = { } /\ TierFiles(NativeSuffix) # { }) =>
         /\ IsModule(res.module)
         /\ res.module.resolvedFileName = Candidate(NativeSuffix, res.module.extension)

\* sub.ios.ts and sub.ts both exist and ./sub is found as sub.ios.ts
C2_Witness ==
  /\ BroadRequest
  /\ req.modulePath = SubSpecifier
  /\ isFile(File(AppDir, Sub, PlatformSuffix, Ts))
  /\ isFile(InApp(Sub, Ts))
  /\ res.module = Module(File(AppDir, Sub, PlatformSuffix, Ts), Ts)

\* C3: within the platform tier the result comes from (the first tier that
\* has any allowed file), findModuleFile returns the file whose extension is
\* earliest in the order .ts, .tsx, .d.ts, .js, .jsx, .json.
C3_ExtensionPriority ==
  BroadRequest =>
    \A t \in 1..Len(PlatformExtensions) :
      (/\ TierFiles(PlatformExtensions[t]) # { }
       /\ \A u \in 1..(t - 1) : TierFiles(PlatformExtensions[u]) = { }) =>
        /\ IsModule(res.module)
        /\ res.module.resolvedFileName = Candidate(PlatformExtensions[t], res.module.extension)
        /\ \A i \in TierFiles(PlatformExtensions[t]) :
             Rank(res.module.extension) <= Rank(req.extensions[i])

\* sub.tsx and sub.d.ts both exist, unsuffixed, and ./sub is found as sub.tsx
C3_Witness ==
  /\ BroadRequest
  /\ req.modulePath = SubSpecifier
  /\ isFile(InApp(Sub, Tsx))
  /\ isFile(InApp(Sub, Dts))
  /\ res.module = Module(InApp(Sub, Tsx), Tsx)

\* C4: when the containing file ends with .d.ts, every resolved module of the
\* returned array has extension .d.ts or .ts.
C4_DeclarationGate ==
  (ResolveReturned /\ hasExtension(req.containingFile, Dts)) =>
    \A i \in 1..Len(res.resolutions) :
      IsModule(res.resolutions[i]) => res.resolutions[i].extension \in { Dts, Ts }

\* C5: from a .d.ts containing file, ./sub resolves to ./sub.d.ts when both
\* ./sub.d.ts and ./sub.ts exist, and to ./sub.ts when only that exists.
C5_DeclarationPreferred ==
  (/\ ResolveReturned
   /\ hasExtension(req.containingFile, Dts)
   /\ req.moduleNames = << SubSpecifier >>
   /\ isFile(InApp(Sub, Ts))
   /\ ~isFile(InApp(Sub, Tsx))) =>
    res.resolutions[1] = IF isFile(InApp(Sub, Dts)) THEN Module(InApp(Sub, Dts), Dts)
                         ELSE Module(InApp(Sub, Ts), Ts)

\* C6: when the module path has an explicit .js or .jsx extension that is
\* allowed and the exact file does not exist, findModuleFile goes on to search
\* with the extension trimmed and returns what that search finds.
C6_JavaScriptRetry ==
  (/\ FindReturned
   /\ getExtensionFromPath(req.modulePath) \in { Js, Jsx }
   /\ InSeq(getExtensionFromPath(req.modulePath), req.extensions)
   /\ ~isFile(join(req.searchDir, req.modulePath))) =>
    res.module = BroadSearch(req.searchDir,
                             SubSeq(req.modulePath, 1, Len(req.modulePath) - 2),
                             req.extensions).module

\* C7: every module findModuleFile returns names an existing file, with an
\* extension that is one of the allowed extensions it was given and that the
\* path ends with; and every module resolveModuleNames returns has an
\* extension allowed for its containing file.
C7_ResultsAreAllowedFiles ==
  /\ (FindReturned /\ IsModule(res.module)) =>
       /\ isFile(res.module.resolvedFileName)
       /\ InSeq(res.module.extension, req.extensions)
       /\ EndsWith(res.module.resolvedFileName, res.module.extension)
  /\ ResolveReturned =>
       \A i \in 1..Len(res.resolutions) :
         IsModule(res.resolutions[i]) =>
           /\ isFile(res.resolutions[i].resolvedFileName)
           /\ InSeq(res.resolutions[i].extension, AllowedFor(req.containingFile))
           /\ EndsWith(res.resolutions[i].resolvedFileName, res.resolutions[i].extension)

\* ./sub.js with .js not allowed is found as sub.ts
C7_Witness ==
  /\ FindReturned
  /\ req.modulePath = SubSpecifier \o Js
  /\ ~InSeq(Js, req.extensions)
  /\ res.module = Module(InApp(Sub, Ts), Ts)

\* C8: substitution returns unchanged every specifier that is neither
\* react-native itself nor react-native followed by "/".
C8_OtherPackagesUnchanged ==
  (/\ ReplaceReturned
   /\ req.m # rn
   /\ ~StartsWith(req.m, rn \o << sep >>)) =>
    res.m = req.m

ClaimedMapping ==
  [p \in { "windows", "macos", "win32" } |->
     CASE p = "windows" -> << "react-native", "-windows" >>
       [] p = "macos" -> << "react-native", "-macos" >>
       [] p = "win32" -> << "@office-iss", sep, "react-native", "-win32" >>]

Mentions(dir) ==
  \E k \in 1..Len(sink) : \E l \in 1..Len(sink[k].lines) : \E a \in 2..Len(sink[k].lines[l]) :
    StartsWith(sink[k].lines[l][a], dir)

\* C9: with substitution enabled on windows, macos or win32 a specifier
\* "react-native" + rest becomes the platform's package name followed by the
\* same rest, the substitution is logged, and resolution goes on with the
\* substituted specifier; with substitution disabled or on any other
\* platform the specifier is returned unchanged and nothing is logged.
C9_MappingAndGating ==
  /\ ReplaceReturned =>
       IF host.disableReactNativePackageSubstitution \/ host.platform \notin DOMAIN ClaimedMapping
       THEN res.m = req.m /\ res.trace = << >> /\ sink = << >> /\ resolverLog.messages = << >>
       ELSE StartsWith(req.m, rn) =>
              /\ res.m = ClaimedMapping[host.platform] \o Substring(req.m, 1)
              /\ res.trace = << << "Substituting module '%s' with '%s'.", req.m, res.m >> >>
  /\ ResolveReturned =>
       \A i \in 1..Len(res.resolutions) :
         (IsModule(res.resolutions[i]) /\ StartsWith(req.moduleNames[i], rn)) =>
           StartsWith(res.resolutions[i].resolvedFileName,
                      (IF host.platform = "windows" THEN RnwDir ELSE RnDir) \o << sep >>)

\* react-native/sub on win32 becomes @office-iss/react-native-win32/sub
C9_Witness ==
  /\ ReplaceReturned
  /\ host.platform = "win32"
  /\ req.m = << "react-native", sep, "sub" >>
  /\ res.m = << "@office-iss", sep, "react-native", "-win32", sep, "sub" >>

NamesWorkspace(name) ==
  /\ isPackageModuleRef(parseModuleRef(name))
  /\ \E k \in 1..Len(host.workspaces) : host.workspaces[k].name = QualifiedName(parseModuleRef(name))

ExternalOf(name, containingFile) == findPackageDependencyDir(parseModuleRef(name), dirname(containingFile))

\* C10: a specifier whose package name is a workspace's, while an external
\* package of that name is reachable under node_modules, resolves inside the
\* workspace root or not at all, and the external package directory is never
\* consulted (no line of the trace names a path in it).
C10_WorkspacePrecedence ==
  ResolveReturned =>
    /\ \A i \in 1..Len(req.moduleNames) :
         (/\ NamesWorkspace(req.moduleNames[i])
          /\ ExternalOf(req.moduleNames[i], req.containingFile) # Undefined
          /\ IsModule(res.resolutions[i])) =>
           StartsWith(res.resolutions[i].resolvedFileName, LibRoot \o << sep >>)
    /\ (\A i \in 1..Len(req.moduleNames) : NamesWorkspace(req.moduleNames[i])) => ~Mentions(ExtLibDir)

\* lib has an index.d.ts in the workspace and in node_modules/lib: the workspace's is returned
C10_Witness ==
  /\ ResolveReturned
  /\ req.moduleNames = << << "lib" >> >>
  /\ isFile(File(ExtLibDir, Index, None, Dts))
  /\ res.resolutions = << Module(File(LibRoot, Index, None, Dts), Dts) >>
  /\ sink # << >>

QueryReturned == req.op = "queryWorkspaceModuleRef" /\ res.done

\* the specifier of the query, resolved against the containing file's directory
QueriedPath == resolve(dirname(req.containingFile), req.moduleNames[1])

\* C11: a file specifier is attributed to a workspace only if its resolved
\* path A is the workspace root followed by a separator and a non-empty
\* sub-path, which is the sub-path returned: root + separator + subPath = A.
\* So a path under packages/lib-foo is never attributed to packages/lib.
C11_WholeSegments ==
  (QueryReturned /\ isFileModuleRef(parseModuleRef(req.moduleNames[1])) /\ res.ref.found) =>
    /\ res.ref.path # << >>
    /\ QueriedPath = res.ref.workspace.path \o << sep >> \o res.ref.path
    /\ \E k \in 1..Len(host.workspaces) : host.workspaces[k] = res.ref.workspace
    /\ StartsWith(QueriedPath, LibFooRoot) => res.ref.workspace.path # LibRoot

\* ../packages/lib-foo/sub, where lib is a workspace and lib-foo is not: no workspace
C11_Witness ==
  /\ QueryReturned
  /\ req.moduleNames = << UpToPackages \o << "lib", "-foo", sep, "sub" >> >>
  /\ host.workspaces = Workspaces
  /\ QueriedPath = LibFooRoot \o << sep, "sub" >>
  /\ ~res.ref.found

\* C12: every module resolved inside an @types package directory has
\* extension .d.ts, for the sub-path lookup and for the entry-point lookup.
C12_TypesPackagesDeclareOnly ==
  ResolveReturned =>
    \A i \in 1..Len(res.resolutions) :
      (/\ IsModule(res.resolutions[i])
       /\ StartsWith(res.resolutions[i].resolvedFileName, NodeModules \o << sep, "@types", sep >>)) =>
        res.resolutions[i].extension = Dts

\* a specifier of the batch that failed to resolve and whose failure is shown
ShownFailure(names, resolutions) ==
  \E i \in 1..Len(names) : ~IsModule(resolutions[i]) /\ shouldShowResolverFailure(names[i])

CallEnds == ~res.done /\ res'.done

C13_Step ==
  (resolverLog.mode = OnFailure /\ CallEnds) =>
    /\ (req.op = "resolveModuleNames" /\ ~res'.thrown) =>
         ((sink' # sink) <=> ShownFailure(req.moduleNames, res'.resolutions))
    /\ (req.op = "trace" \/ req.op = "resolveTypeReferenceDirectives") => sink' = sink

\* C13: in trace mode OnFailure a resolveModuleNames call that returns writes to the sink
\* if and only if some specifier of the batch failed to resolve and shouldShowResolverFailure
\* is true for it; trace() and resolveTypeReferenceDirectives calls write nothing.
C13_OnFailureSink == [][C13_Step]_vars

\* an OnFailure call returned with one failure shown and one module resolved
C13_Witness ==
  /\ ResolveReturned /\ resolverLog.mode = OnFailure
  /\ req.moduleNames = << << "missing" >>, << ".", sep, "sub" >> >>
  /\ ~IsModule(res.resolutions[1]) /\ IsModule(res.resolutions[2])
  /\ sink # << >>

C14_Step ==
  (resolverLog.mode = Always /\ CallEnds /\ req.op = "resolveModuleNames" /\ ~res'.thrown) =>
    Len(sink') = Len(sink) + Len(req.moduleNames)

\* C14: in trace mode Always a resolveModuleNames call that returns flushes exactly one
\* record set to the sink for every specifier of the batch, whatever its outcome, the
\* failures that shouldShowResolverFailure hides included.
C14_AlwaysOnePerSpecifier == [][C14_Step]_vars

\* C15: in trace mode Never no sequence of begin, log, endSuccess, endFailure, reset, trace,
\* resolveModuleNames or resolveTypeReferenceDirectives calls writes to the sink, and the
\* message buffer stays empty throughout.
C15_NeverSilent == resolverLog.mode = Never => (sink = << >> /\ resolverLog.messages = << >>)

\* the last call of a sequence of host calls in mode Never, with a failure that would be shown
C15_Witness ==
  /\ resolverLog.mode = Never /\ req.menu = "host" /\ req.left = 0
  /\ ResolveReturned /\ req.moduleNames[1] = << "missing" >> /\ ~IsModule(res.resolutions[1])

\* C17: a resolveModuleNames call abandoned by an exception from the package-manifest read
\* leaves the trace log Idle with an empty buffer.
C17_AbandonedLeavesIdle ==
  (req.op = "resolveModuleNames" /\ res.done /\ res.thrown) =>
    (~resolverLog.buffering /\ resolverLog.messages = << >>)

ResolvingBanner == "======== Resolving module '%s' from '%s' ========"

ClosingLines ==
  { "======== Module name '%s' was successfully resolved to '%s' ========",
    "======== Module name '%s' failed to resolve to a file ========" }

CountOf(lines, formats) == Cardinality({ j \in 1..Len(lines) : lines[j][1] \in formats })

\* the record holds the lines of one specifier, from its banner to its closing line
OneTransaction(lines, names, containingFile) ==
  /\ lines # << >>
  /\ lines[1][1] = ResolvingBanner /\ InSeq(lines[1][2], names) /\ lines[1][3] = containingFile
  /\ lines[Len(lines)][1] \in ClosingLines
  /\ CountOf(lines, { ResolvingBanner }) = 1
  /\ CountOf(lines, ClosingLines) = 1

\* the records name specifiers of the batch in the order of the batch
InBatchOrder(records, names) ==
  \E at \in [1..Len(records) -> 1..Len(names)] :
    /\ \A k \in 1..Len(records) : records[k].lines # << >> /\ records[k].lines[1][2] = names[at[k]]
    /\ \A k \in 1..Len(records), l \in 1..Len(records) : k < l => at[k] < at[l]

Flushed == SubSeq(sink', Len(sink) + 1, Len(sink'))

C16_Step ==
  (resolverLog.mode # Never /\ CallEnds /\ req.op = "resolveModuleNames" /\ ~res'.thrown) =>
    /\ Len(sink') >= Len(sink) /\ SubSeq(sink', 1, Len(sink)) = sink
    /\ \A k \in 1..Len(Flushed) : OneTransaction(Flushed[k].lines, req.moduleNames, req.containingFile)
    /\ InBatchOrder(Flushed, req.moduleNames)

\* C16: trace records are ordered and atomic per specifier: the records a resolveModuleNames
\* call flushes follow the order of the batch, each holds exactly the lines logged between one
\* specifier's begin and its end, starting with its Resolving module banner, and no line of
\* one specifier appears in the record of another.
C16_OrderedAtomicRecords == [][C16_Step]_vars

LowerCaseSuffix == << ".", toLowerCase(host.platform) >>

\* C18: the platform given at construction is lowercased before use: a host constructed with
\* Windows or iOS probes the suffix .windows / .ios and applies the react-native substitution
\* exactly as one constructed with windows / ios.
C18_PlatformLowercased ==
  /\ (ReplaceReturned /\ ~host.disableReactNativePackageSubstitution
        /\ toLowerCase(host.platform) \in DOMAIN ClaimedMapping /\ StartsWith(req.m, rn)) =>
       res.m = ClaimedMapping[toLowerCase(host.platform)] \o Substring(req.m, 1)
  /\ (BroadRequest /\ TierFiles(LowerCaseSuffix) # { }) =>
       /\ IsModule(res.module)
       /\ res.module.resolvedFileName = Candidate(LowerCaseSuffix, res.module.extension)

ParseReturned == req.op = "parseRnTsc" /\ res.done

Given(option) == InSeq(option, req.args)

\* every option that takes a value is followed by one
WellFormed(args) ==
  \A i \in 1..Len(args) : args[i] \in ValueOptions => (i < Len(args) /\ args[i + 1] \in ArgValues)

\* C19: each of --disableReactNativePackageSubstitution, --traceReactNativeModuleResolutionErrors
\* and --traceResolutionLog given without --platform is rejected as a usage error by parseRnTsc;
\* given together with --platform each is accepted.
C19_DependencyRule ==
  (ParseReturned /\ WellFormed(req.args)) =>
    /\ \A d \in FlagOptions \cup { "--traceResolutionLog" } :
         (Given(d) /\ ~Given("--platform")) => res.thrown
    /\ Given("--platform") => ~res.thrown

\* C19 as the code has it: the two flags given without --platform are rejected as a usage
\* error; --traceResolutionLog is accepted with or without --platform; given together with
\* --platform each is accepted.
C19_DependencyRuleOfFlags ==
  (ParseReturned /\ WellFormed(req.args)) =>
    /\ \A d \in FlagOptions :
         (Given(d) /\ ~Given("--platform")) =>
           /\ res.thrown
           /\ res.commandLine.error[1] = "%s can only be used in conjunction with %s"
           /\ res.commandLine.error[2] \in FlagOptions \cup { "--platformExtensions" }
           /\ res.commandLine.error[3] = "--platform"
    /\ (Given("--traceResolutionLog") /\ ~Given("--platform") /\ ~Given("--platformExtensions")
          /\ \A d \in FlagOptions : ~Given(d)) =>
         /\ ~res.thrown
         /\ res.commandLine.rntsc.traceResolutionLog # Undefined
         /\ res.commandLine.rntsc.platform = Undefined
    /\ Given("--platform") =>
         /\ ~res.thrown
         /\ res.commandLine.rntsc.platform # Undefined
         /\ res.commandLine.rntsc.disableReactNativePackageSubstitution
               = Given("--disableReactNativePackageSubstitution")
         /\ res.commandLine.rntsc.traceReactNativeModuleResolutionErrors
               = Given("--traceReactNativeModuleResolutionErrors")
         /\ (res.commandLine.rntsc.traceResolutionLog # Undefined) = Given("--traceResolutionLog")

\* --disableReactNativePackageSubstitution with a trace log and no platform is rejected
C19_Witness ==
  /\ ParseReturned
  /\ req.args = << "--disableReactNativePackageSubstitution", "--traceResolutionLog", "log.txt" >>
  /\ res.thrown

\* the workspace lib, with main lib/index.js and no types, named by a bare specifier
MainRequest ==
  /\ ResolveReturned /\ req.moduleNames = << << "lib" >> >>
  /\ manifests[LibRoot].main = MainJs
  /\ manifests[LibRoot].types = Undefined /\ manifests[LibRoot].typings = Undefined

\* the highest-precedence existing lib/index.* candidate, none when there is none
LibIndexCandidate == BroadSearch(LibRoot, << "lib", sep >> \o Index, host.extensionsAll).module

\* C20: for a workspace whose manifest has main lib/index.js and no types/typings, a bare-name
\* specifier with checkJs=true resolves to the highest-precedence existing lib/index.* candidate
\* (platform suffix first, then .ts, .tsx, .d.ts, .js, .jsx); with checkJs=false and no
\* TypeScript file at lib/index.*, resolution falls through to the index search in the
\* workspace root and returns none if that fails too.
C20_WorkspaceMain ==
  MainRequest =>
    /\ (host.options.checkJs /\ IsModule(LibIndexCandidate)) => res.resolutions[1] = LibIndexCandidate
    /\ (~host.options.checkJs /\ ~IsModule(LibIndexCandidate)) =>
         res.resolutions[1] = BroadSearch(LibRoot, Index, host.extensionsAll).module

\* "." + platform, "." + each extra platform extension, and the empty suffix last
ClaimedSuffixes == << PlatformSuffix, NativeSuffix, << >> >>

\* the k-th probe of the cross-product: suffixes outside, allowed extensions inside
ClaimedProbe(k) ==
  Candidate(ClaimedSuffixes[((k - 1) \div Len(req.extensions)) + 1],
            req.extensions[((k - 1) % Len(req.extensions)) + 1])

ClaimedProbeCount == Len(ClaimedSuffixes) * Len(req.extensions)

ClaimedMisses(n) == [k \in 1..n |-> FileMiss(ClaimedProbe(k))]

ClaimedHits == { k \in 1..ClaimedProbeCount : isFile(ClaimedProbe(k)) }

\* C22: for a module path without an allowed explicit extension the file probes are issued in
\* the order of the cross-product of ["."+platform, "."+extra, ..., ""] (outer) with the allowed
\* extensions (inner), stopping at the first existing file; the directory probe comes only
\* after every file probe missed.
C22_ProbeOrder ==
  BroadRequest =>
    IF ClaimedHits # { }
    THEN \E k \in ClaimedHits :
           /\ \A j \in ClaimedHits : k <= j
           /\ res.trace = ClaimedMisses(k - 1)
           /\ res.module.resolvedFileName = ClaimedProbe(k)
    ELSE /\ Len(res.trace) >= ClaimedProbeCount
         /\ SubSeq(res.trace, 1, ClaimedProbeCount) = ClaimedMisses(ClaimedProbeCount)

\* sub.ts and sub/index.ios.d.ts both exist: ./sub is found as sub.ts after the probes of both
\* platform suffixes missed
C22_Witness ==
  /\ BroadRequest /\ req.modulePath = SubSpecifier /\ InSeq(Dts, req.extensions)
  /\ isFile(InApp(Sub, Ts))
  /\ isFile(File(AppDir, Sub \o << sep >> \o Index, PlatformSuffix, Dts))
  /\ res.module = Module(InApp(Sub, Ts), Ts)
  /\ Len(res.trace) = 2 * Len(req.extensions)

\* the extension the module path ends with, longest first: x.d.ts is .d.ts and not .ts
ExplicitOf(modulePath) ==
  IF EndsWith(modulePath, Dts) THEN Dts
  ELSE IF EndsWith(modulePath, Ts) THEN Ts
       ELSE IF EndsWith(modulePath, Tsx) THEN Tsx
            ELSE IF EndsWith(modulePath, Json) THEN Json ELSE Undefined

ExplicitRequest ==
  /\ FindReturned
  /\ ExplicitOf(req.modulePath) # Undefined
  /\ InSeq(ExplicitOf(req.modulePath), req.extensions)

NamedFile == join(req.searchDir, req.modulePath)

\* C23: when the module path ends with an extension of the closed set (longest match) that is
\* allowed and is not .js/.jsx, findModuleFile issues exactly one probe, for
\* join(searchDir, modulePath): it returns that file with that extension if it exists and none
\* otherwise, with no platform-suffixed probe and no directory-index fallback.
C23_ExplicitExtension ==
  ExplicitRequest =>
    IF isFile(NamedFile)
    THEN res.module = Module(NamedFile, ExplicitOf(req.modulePath)) /\ res.trace = << >>
    ELSE res.module = NoModule /\ res.trace = << FileMiss(NamedFile) >>

\* ./sub.ts is asked for, only sub.ios.ts exists, and nothing is found after one probe
C23_Witness ==
  /\ ExplicitRequest /\ req.modulePath = SubSpecifier \o Ts
  /\ isFile(File(AppDir, Sub, PlatformSuffix, Ts)) /\ ~isFile(NamedFile)
  /\ res.module = NoModule /\ Len(res.trace) = 1

EntryReturned == req.op = "resolveModule" /\ res.done

PackageOf(dir) == manifests[dir]

\* the candidates in the claimed order: types, else typings (both only when .d.ts is allowed),
\* then main, then index
ClaimedEntryPoints ==
  (IF ~InSeq(Dts, req.extensions) THEN << >>
   ELSE IF PackageOf(req.searchDir).types # Undefined THEN << PackageOf(req.searchDir).types >>
        ELSE IF PackageOf(req.searchDir).typings # Undefined THEN << PackageOf(req.searchDir).typings >>
             ELSE << >>)
  \o (IF PackageOf(req.searchDir).main # Undefined THEN << PackageOf(req.searchDir).main >> ELSE << >>)
  \o << Index >>

EntryFound(k) == findModuleFile(req.searchDir, ClaimedEntryPoints[k], req.extensions).module

EntryHits == { k \in 1..Len(ClaimedEntryPoints) : IsModule(EntryFound(k)) }

\* C24: with no sub-path resolveModule consults types, else typings (only when .d.ts is
\* allowed, typings only when types is not a string), then main, then index, each only if
\* nothing was found yet, and the first candidate that yields a file is the result; with a
\* sub-path the manifest is not read and the result is findModuleFile(pkgDir, subPath, exts).
C24_EntryPointOrder ==
  EntryReturned =>
    IF req.modulePath # Undefined
    THEN /\ ~res.thrown
         /\ res.module = findModuleFile(req.searchDir, req.modulePath, req.extensions).module
         /\ res.trace = findModuleFile(req.searchDir, req.modulePath, req.extensions).trace
    ELSE ~res.thrown =>
           IF EntryHits = { } THEN res.module = NoModule
           ELSE \E k \in EntryHits : (\A j \in EntryHits : k <= j) /\ res.module = EntryFound(k)

\* types names a missing file and typings an existing one: typings is not tried
C24_Witness ==
  /\ EntryReturned /\ req.modulePath = Undefined /\ req.extensions = << Ts, Tsx, Dts >>
  /\ PackageOf(req.searchDir).types = TypesFile /\ PackageOf(req.searchDir).typings = TypingsFile
  /\ ~isFile(req.searchDir \o << sep >> \o TypesFile) /\ isFile(req.searchDir \o << sep >> \o TypingsFile)
  /\ isFile(File(ExtDir, Index, None, Ts))
  /\ res.module = Module(File(ExtDir, Index, None, Ts), Ts)

Idle(l) == ~l.buffering

Record(lines) == [to |-> resolverLog.logFile, lines |-> lines]

C25_Step ==
  CallEnds =>
    /\ req.op \in { "endSuccess", "endFailure", "reset" } =>
         (Idle(resolverLog') /\ resolverLog'.messages = << >>)
    /\ req.op = "endSuccess" =>
         sink' = IF resolverLog.mode = Always THEN Append(sink, Record(resolverLog.messages)) ELSE sink
    /\ req.op = "endFailure" =>
         sink' = IF resolverLog.mode \in { Always, OnFailure }
                 THEN Append(sink, Record(resolverLog.messages)) ELSE sink
    /\ req.op = "reset" => sink' = sink
    /\ (req.op = "log" /\ Idle(resolverLog)) =>
         /\ Idle(resolverLog') /\ resolverLog'.messages = << >>
         /\ sink' = IF resolverLog.mode = Always THEN Append(sink, Record(<< req.message >>)) ELSE sink
    /\ (req.op = "log" /\ ~Idle(resolverLog)) =>
         /\ sink' = sink /\ ~Idle(resolverLog')
         /\ resolverLog'.messages =
              IF resolverLog.mode = Never THEN << >> ELSE Append(resolverLog.messages, req.message)

\* C25: after any sequence of begin, log, endSuccess, endFailure and reset calls, in any mode,
\* an Idle log has an empty buffer; endSuccess, endFailure and reset leave the log Idle with an
\* empty buffer; endSuccess flushes iff the mode is Always and endFailure iff it is Always or
\* OnFailure; a log call made while Idle is written at once in mode Always and dropped in mode
\* OnFailure.
C25_LogStateInvariant == [](Idle(resolverLog) => resolverLog.messages = << >>) /\ [][C25_Step]_vars

\* begin, then endFailure, then a log call while Idle that is written as its own record
C25_Witness ==
  /\ req.menu = "log" /\ req.left = 0 /\ req.op = "log" /\ res.done
  /\ resolverLog.mode = Always /\ Idle(resolverLog)
  /\ Len(sink) >= 2 /\ sink[Len(sink)].lines = << req.message >>

\* C28: every write to the sink carries at least one logged line; an endSuccess or endFailure
\* reached with an empty buffer writes nothing.
C28_NoEmptyRecords == \A k \in 1..Len(sink) : sink[k].lines # << >>

AdjunctReturned ==
  /\ res.done
  /\ req.op \in { "resolveTypeReferenceDirectives", "getResolvedModuleWithFailedLookupLocationsFromCache" }

\* C29: after resolveTypeReferenceDirectives or getResolvedModuleWithFailedLookupLocationsFromCache
\* finishes, by returning or by the default resolver's exception, the trace log is Idle with an
\* empty buffer.
C29_AdjunctClosesTransaction == AdjunctReturned => (Idle(resolverLog) /\ resolverLog.messages = << >>)

\* one external specifier, of the package ext
ExternalRequest ==
  /\ ResolveReturned /\ Len(req.moduleNames) = 1
  /\ req.moduleNames[1] \in { << "ext" >>, << "ext", sep, "sub" >> }

SubPathOf(name) == parseModuleRef(name).path

TypesOf(name, containingFile) ==
  findPackageDependencyDirFrom(<< "@types", sep >> \o parseModuleRef(name).name, dirname(containingFile))

\* step n of the chain for the specifier, none when the step is not taken
ChainStep(n, name, containingFile) ==
  CASE n = 1 -> IF ExternalOf(name, containingFile) = Undefined THEN NoModule
                ELSE resolveModule(ExternalOf(name, containingFile), SubPathOf(name),
                                   AllowedFor(containingFile)).module
    [] n = 2 -> IF ExternalOf(name, containingFile) = Undefined \/ SubPathOf(name) = Undefined THEN NoModule
                ELSE resolveModule(ExternalOf(name, containingFile), Undefined, << Dts >>).module
    [] n = 3 -> IF TypesOf(name, containingFile) = Undefined THEN NoModule
                ELSE resolveModule(TypesOf(name, containingFile), SubPathOf(name), << Ts, Tsx, Dts >>).module
    [] n = 4 -> IF TypesOf(name, containingFile) = Undefined \/ SubPathOf(name) = Undefined THEN NoModule
                ELSE resolveModule(TypesOf(name, containingFile), Undefined, << Dts >>).module

ChainHits(name, containingFile) == { n \in 1..4 : IsModule(ChainStep(n, name, containingFile)) }

SinkHas(format) == \E k \in 1..Len(sink) : \E l \in 1..Len(sink[k].lines) : sink[k].lines[l][1] = format

TypesBanner == "Loading module from external @types package '%s'."

\* C26: resolvePackage tries, each step only if all earlier ones yielded nothing, (1) the
\* package found by the node_modules walk with the sub-path or entry point, (2) with a
\* sub-path only, that package's entry point with [.d.ts], (3) the @types package with the same
\* sub-path, (4) with a sub-path only, the @types package's entry point. The @types package is
\* consulted when the package was not found and when it did not resolve, and never once steps
\* 1-2 produced a file.
C26_FallbackChain ==
  ExternalRequest =>
    /\ IF ChainHits(req.moduleNames[1], req.containingFile) = { } THEN ~IsModule(res.resolutions[1])
       ELSE \E n \in ChainHits(req.moduleNames[1], req.containingFile) :
              /\ \A o \in ChainHits(req.moduleNames[1], req.containingFile) : n <= o
              /\ res.resolutions[1] = ChainStep(n, req.moduleNames[1], req.containingFile)
    /\ resolverLog.mode = Always =>
         (SinkHas(TypesBanner) <=>
            /\ TypesOf(req.moduleNames[1], req.containingFile) # Undefined
            /\ ChainHits(req.moduleNames[1], req.containingFile) \cap { 1, 2 } = { })

\* the package ext exists but has no entry point, and ext resolves from @types/ext
C26_Witness ==
  /\ ExternalRequest /\ req.moduleNames[1] = << "ext" >> /\ resolverLog.mode = Always
  /\ ExternalOf(req.moduleNames[1], req.containingFile) = ExtDir
  /\ res.resolutions[1] = Module(File(TypesExtDir, Index, None, Dts), Dts)
  /\ SinkHas(TypesBanner)

\* the workspace reference of specifier i after the react-native substitution
WorkspaceRefOf(i) ==
  queryWorkspaceModuleRef(replaceReactNativePackageName(req.moduleNames[i]).m, req.containingFile)

InWorkspace(ref) == resolveModule(ref.workspace.path, ref.path, AllowedFor(req.containingFile)).module

\* C27: once queryWorkspaceModuleRef matches a workspace for a specifier, by package name or
\* by path, the result for that specifier is exactly the result of resolving inside the
\* workspace root; if that fails the specifier is unresolved, whatever an external package of
\* the same name, its @types package or the directory search would have produced.
C27_NoFallbackOutOfWorkspace ==
  ResolveReturned =>
    \A i \in 1..Len(req.moduleNames) :
      WorkspaceRefOf(i).found => res.resolutions[i] = InWorkspace(WorkspaceRefOf(i))

\* lib is a workspace with nothing to resolve to; node_modules/lib has an index.d.ts; lib is
\* unresolved
C27_Witness ==
  /\ ResolveReturned /\ req.moduleNames = << << "lib" >> >>
  /\ WorkspaceRefOf(1).found
  /\ ExternalOf(req.moduleNames[1], req.containingFile) = ExtLibDir
  /\ isFile(File(ExtLibDir, Index, None, Dts))
  /\ ~IsModule(res.resolutions[1])

IsFileMiss(line) == line[1] = "File %s does not exist."

IsDirectoryMiss(line) == line[1] = "Directory %s does not exist."

-----------------------------------------------------------------------------
(* Compiling *)

EmitReturned == req.op = "emit" /\ res.done

Calls(method) == Cardinality({ i \in 1..Len(res.emitted.queried) : res.emitted.queried[i] = method })

PrintsOf(d) == Cardinality({ i \in 1..Len(res.emitted.printed) : res.emitted.printed[i] = d })

\* what the program would report were every one of its methods called
Reported(program) ==
  Range(program.configFileParsing) \cup Range(program.syntactic) \cup Range(program.options)
    \cup Range(program.global) \cup Range(program.semantic)
    \cup (IF program.listFilesOnly THEN { } ELSE Range(program.emitDiagnostics))

\* the diagnostics of the methods that were called
Resulting(program) ==
  UNION { Range(program[source[2]]) :
            source \in { s \in { << "getConfigFileParsingDiagnostics", "configFileParsing" >>,
                                 << "getSyntacticDiagnostics", "syntactic" >>,
                                 << "getOptionsDiagnostics", "options" >>,
                                 << "getGlobalDiagnostics", "global" >>,
                                 << "getSemanticDiagnostics", "semantic" >>,
                                 << "emit", "emitDiagnostics" >> } : Calls(s[1]) > 0 } }

ErrorsOf(S) == Cardinality({ d \in S : d.category = Error })

FoundLine(n) == IF n = 1 THEN << "Found 1 error." >> ELSE << "Found ", ToString(n), " errors." >>

PrintedOnceAndCounted ==
  /\ \A d \in Diagnostics : PrintsOf(d) = (IF d \in Resulting(req.program) THEN 1 ELSE 0)
  /\ ErrorsOf(Resulting(req.program)) > 0 => InSeq(FoundLine(ErrorsOf(Resulting(req.program))), res.emitted.console)
  /\ ErrorsOf(Resulting(req.program)) = 0 => res.emitted.console = << >>

EmitOnceUnlessListing == Calls("emit") = (IF req.program.listFilesOnly THEN 0 ELSE 1)

\* C21, as stated: whatever the program, each of the five diagnostic methods
\* is called exactly once, emit exactly once unless listFilesOnly, every
\* diagnostic is printed once and the errors are counted on the console.
C21_EverySourceOnce ==
  EmitReturned =>
    /\ \A method \in { "getConfigFileParsingDiagnostics", "getSyntacticDiagnostics", "getOptionsDiagnostics",
                       "getGlobalDiagnostics", "getSemanticDiagnostics" } : Calls(method) = 1
    /\ EmitOnceUnlessListing
    /\ PrintedOnceAndCounted

NoneFrom(source) == req.program[source] = << >>

\* C21: the config-file-parsing and syntactic diagnostics are asked for
\* exactly once on every run; the options diagnostics once when there are no
\* syntactic ones and otherwise not; the global ones once when moreover
\* listFilesOnly is off; the semantic ones once when moreover options and
\* global reported nothing; emit is called once unless listFilesOnly; every
\* diagnostic of the methods called is printed exactly once, and N > 0 errors
\* among them are counted by the line Found N errors. (Found 1 error.).
C21_SourcesOnceInOrder ==
  EmitReturned =>
    /\ Calls("getConfigFileParsingDiagnostics") = 1
    /\ Calls("getSyntacticDiagnostics") = 1
    /\ Calls("getOptionsDiagnostics") = (IF NoneFrom("syntactic") THEN 1 ELSE 0)
    /\ Calls("getGlobalDiagnostics") = (IF NoneFrom("syntactic") /\ ~req.program.listFilesOnly THEN 1 ELSE 0)
    /\ Calls("getSemanticDiagnostics") =
         (IF NoneFrom("syntactic") /\ ~req.program.listFilesOnly /\ NoneFrom("options") /\ NoneFrom("global")
          THEN 1 ELSE 0)
    /\ EmitOnceUnlessListing
    /\ PrintedOnceAndCounted

\* a program with a syntax error and a semantic error: only the first is printed
C21_Witness ==
  /\ EmitReturned /\ ~req.program.listFilesOnly
  /\ req.program.syntactic = << Diagnostic(1, Error) >> /\ req.program.semantic = << Diagnostic(2, Error) >>
  /\ res.emitted.queried = << "getConfigFileParsingDiagnostics", "getSyntacticDiagnostics", "emit" >>
  /\ res.emitted.printed = << Diagnostic(1, Error) >>
  /\ res.emitted.console = << << >>, << "Found 1 error." >>, << >> >>

====
